---- MODULE Spec2Model ----
(***************************************************************************)
(* Model of the archive ingestion pipeline of web_monitoring:              *)
(*   cli.py            import_ia_urls, load_wayback_records_worker,        *)
(*                     merge_worker_summaries, _filter_unchanged_versions, *)
(*                     _add_and_monitor, _list_ia_versions_for_urls        *)
(*   internetarchive.py WaybackClient.list_versions, get_memento,          *)
(*                     WaybackSession.send                                 *)
(*                                                                         *)
(* One main task (import_ia_urls) collects batches of CDX records and      *)
(* spawns worker threads; one uploader thread drains the versions queue.   *)
(* One call of get_memento and one call of WaybackSession.send are         *)
(* modelled step by step, each with a specification of its own.            *)
(***************************************************************************)
EXTENDS Integers, Sequences, FiniteSets, TLC

(* ------------------------------ bounds -------------------------------- *)

\* Most CDX records the producer yields in one run.
MaxRecords == 3
\* Largest worker_count (--parallel) tried.
MaxWorkers == 2
\* Size of a batch of CDX records (toolz.partition_all(2000, ...)), scaled.
BatchSize == 2

\* Most requests one get_memento call sends (length of a redirect chain).
MaxHops == 3
\* Largest value of WaybackSession.retries tried.
MaxRetries == 3

\* Most pages (requests) of one CDX search.
MaxPages == 2
\* Most record lines of one page of a CDX response.
MaxPageRecords == 2

\* Most URL patterns of one listing.
MaxPatterns == 2

\* Most symbols of a URL key given to _rough_url_key.
MaxKeyLen == 4
\* Most digits of the port of a URL in a CDX record.
MaxPortDigits == 4

\* PARALLEL_REQUESTS (cli.py:25), the worker count used when worker_count <= 0.
PARALLEL_REQUESTS == 10

Pages == {"P1", "P2"}
Hashes == {"H1", "H2"}
Digests == {"D1", "D2"}

SkipModes == {"none", "response", "resolved-response"}

(* ------------------------- errors of a fetch --------------------------- *)

\* What the Archive does when one memento is requested.
\*   ok                 a playable memento (possibly after legal redirects)
\*   not_playable       a non-memento response with a runtime-error header,
\*                      or a non-memento 2xx response
\*   circular           a memento redirect chain that returns to a visited URL
\*   http_404           a non-memento 404 response
\*   http_error         a non-memento response with another error status
\*   retries_exhausted  transport errors until the session gives up
\*   bad_redirect       a redirect whose target is not a memento URL
Scenarios == {"ok", "not_playable", "circular", "http_404", "http_error",
              "retries_exhausted", "bad_redirect"}

\* Faulty variant: a circular chain raises an error kind of its own.
get_memento_raises_circular_kind(scenario) ==
    CASE scenario = "ok" -> "NoError"
      [] scenario = "not_playable" -> "MementoPlaybackError"
      [] scenario = "circular" -> "CircularMemento"
      [] scenario = "http_404" -> "HTTPError404"
      [] scenario = "http_error" -> "HTTPError"
      [] scenario = "retries_exhausted" -> "WaybackRetryError"
      [] scenario = "bad_redirect" -> "ValueError"

\* The exception WaybackClient.get_memento ends with (NoError: it returns).
get_memento_raises(scenario) ==
    CASE scenario = "ok" -> "NoError"
      [] scenario = "not_playable" -> "MementoPlaybackError"
      [] scenario = "circular" -> "MementoPlaybackError"
      [] scenario = "http_404" -> "HTTPError404"
      [] scenario = "http_error" -> "HTTPError"
      [] scenario = "retries_exhausted" -> "WaybackRetryError"
      [] scenario = "bad_redirect" -> "ValueError"

\* Faulty variant: the HTTPError clause does not look at the status code.
ExceptClause_ignores_status(exc) ==
    CASE exc = "NoError" -> "success"
      [] exc = "MementoPlaybackError" -> "playback"
      [] exc = "HTTPError404" -> "unknown"
      [] exc = "HTTPError" -> "unknown"
      [] exc = "WaybackRetryError" -> "unknown"
      [] OTHER -> "unknown"

\* Faulty variant: there is no final `except Exception` clause.
ExceptClause_no_catch_all(exc) ==
    CASE exc = "NoError" -> "success"
      [] exc = "MementoPlaybackError" -> "playback"
      [] exc = "HTTPError404" -> "missing"
      [] exc = "HTTPError" -> "unknown"
      [] exc = "WaybackRetryError" -> "unknown"
      [] OTHER -> "uncaught"

\* The except clauses of load_wayback_records_worker: the counter an
\* exception is added to ("uncaught" when no clause matches).  Every error
\* class of a fetch derives from Exception, which the last clause catches.
ExceptClause(exc) ==
    CASE exc = "NoError" -> "success"
      [] exc = "MementoPlaybackError" -> "playback"
      [] exc = "HTTPError404" -> "missing"
      [] exc = "HTTPError" -> "unknown"
      [] exc = "WaybackRetryError" -> "unknown"
      [] OTHER -> "unknown"

\* Faulty variant: a failed record is put on the queue in every pass.
ShouldPutOnFailureQueue_always(has_failure_queue, go_slow_and_try_hard) ==
    TRUE

\* `if failure_queue and not go_slow_and_try_hard` in the three clauses that
\* count an unknown error.
ShouldPutOnFailureQueue(has_failure_queue, go_slow_and_try_hard) ==
    has_failure_queue /\ ~go_slow_and_try_hard

(* ------------------------------ summaries ------------------------------ *)

worker_summary ==
    [total |-> 0, success |-> 0, playback |-> 0, missing |-> 0, unknown |-> 0]

SummaryKeys == {"total", "success", "playback", "missing", "unknown"}

AddSummaries(a, b) == [k \in SummaryKeys |-> a[k] + b[k]]

RECURSIVE merge_worker_summaries(_)
\* merged[key] += summary[key] over a sequence of summaries.
merge_worker_summaries(summaries) ==
    IF summaries = <<>> THEN worker_summary
    ELSE AddSummaries(Head(summaries), merge_worker_summaries(Tail(summaries)))

\* Faulty variant: the retry successes are not taken out of unknown.
MergeRetrySummary_keeps_unknown(sum, retry_summary) ==
    [sum EXCEPT !.success = @ + retry_summary.success]

\* Lines 243-247: the retry pass moves its successes from unknown to success.
MergeRetrySummary(sum, retry_summary) ==
    [sum EXCEPT !.success = @ + retry_summary.success,
                !.unknown = @ - retry_summary.success]

Bump(sum, key) == [sum EXCEPT ![key] = @ + 1]

(* ------------------------------- queues -------------------------------- *)

\* The None that ends a queue_iterator.
NoVersion == [page_url |-> "None", version_hash |-> "None", rec |-> 0]
NoRecord == 0

\* Faulty variant: a last-in first-out queue (queue.LifoQueue).
QueuePut_lifo(q, item) == <<item>> \o q

\* Faulty variant: get leaves the item on the queue.
QueueRest_keeps(q) == q

\* queue.Queue: put adds at the end, get takes the oldest item.
QueuePut(q, item) == Append(q, item)
QueueGet(q) == Head(q)
QueueRest(q) == Tail(q)

\* maxsize of queue.Queue(), called without arguments for the versions
\* queue and for the retry queues; "If maxsize is less than or equal to
\* zero, the queue size is infinite."
QueueMaxsize == 0

\* queue.Queue.put blocks while the queue is full.
QueueFull(q, maxsize) == maxsize > 0 /\ Len(q) >= maxsize

\* utils.queue_iterator ends (returns) when it gets None from its queue.
queue_iterator_ends(item, none) == item = none

\* utils.ThreadSafeIterator: next() under a lock, so that each item of the
\* wrapped iterator is handed to exactly one caller; the new position.
ThreadSafeNext(pos) == pos + 1

\* Faulty variant: every version is yielded.
filter_yields_everything(hashes, version) == TRUE

\* Faulty variant: the last hash is not kept per page.
filter_yields_by_hash_only(hashes, version) ==
    \A p \in DOMAIN hashes : hashes[p] # version.version_hash

\* _filter_unchanged_versions: is this version yielded?
filter_yields(hashes, version) ==
    hashes[version.page_url] # version.version_hash

\* Faulty variant: a worker_count that is not positive is raised to 1.
EffectiveWorkerCount_at_least_one(count) ==
    IF count > 1 THEN count ELSE 1

\* PARALLEL_REQUESTS replaces a worker_count that is not positive.
EffectiveWorkerCount(count) ==
    IF count > 0 THEN count ELSE PARALLEL_REQUESTS

\* The most workers a run has.
WorkerSlots ==
    IF MaxWorkers > PARALLEL_REQUESTS THEN MaxWorkers ELSE PARALLEL_REQUESTS

(* ------------------ what the mode asks of each stage ------------------- *)

\* Faulty variant: resolved-response also skips repeats in the CDX listing.
skip_responses_cumulative(mode) == mode \in {"response", "resolved-response"}

\* Line 180: the skip_repeats argument of list_versions.
skip_responses(mode) == mode = "response"

\* The collapse parameter of the CDX query of list_versions: it is set
\* whatever skip_repeats is, and import_ia_urls passes no cdx_params.
list_versions_collapse(skip_repeats) == "digest"

\* The skip_unchanged_versions argument of db.Client.add_versions: the
\* uploader is started with (versions, create_pages) only, so that
\* _add_and_monitor uses its default.
skip_unchanged_versions(mode) == TRUE

\* Faulty variant: one last digest for all URLs.
list_versions_yields_any_url(skip_repeats, hashes, url, digest) ==
    ~skip_repeats \/ \A u \in DOMAIN hashes : hashes[u] # digest

\* list_versions: is a CDX record yielded?
list_versions_yields(skip_repeats, hashes, url, digest) ==
    ~skip_repeats \/ hashes[url] # digest

(* --------------------- get_memento: one memento fetch ------------------ *)

\* Original URLs of captures; "A" differs from "a" only in case.
OrigUrls == {"a", "A", "b"}

\* str.casefold on the original URLs.
casefold(u) == IF u = "A" THEN "a" ELSE u

\* Capture times, in seconds after the earliest one: the same second, twelve
\* hours later, one second more than that, one day later.
Dates == {0, 12 * 60 * 60, 12 * 60 * 60 + 1, 24 * 60 * 60}

\* A memento URL http://web.archive.org/web/<date>id_/<orig>, as the pair
\* memento_url_data extracts from it.
MementoUrls == [orig : OrigUrls, date : Dates]

\* A URL that MEMENTO_URL_PATTERN does not match, and the absent
\* response.next.
ExternalUrl == [orig |-> "external", date |-> 0]
NoUrl == [orig |-> "none", date |-> 0]

StatusCodes == {200, 302, 404, 503}

\* The responses the Archive can give to a request of a URL.  requests sets
\* response.next only on a redirect status with a Location header.
Responses(url) ==
    {r \in [url : {url}, memento_datetime : BOOLEAN, status_code : StatusCodes,
            next : MementoUrls \cup {ExternalUrl, NoUrl},
            runtime_error : BOOLEAN] :
        /\ r.next # NoUrl => r.status_code = 302
        /\ r.memento_datetime => ~r.runtime_error}

NoResponse ==
    [url |-> NoUrl, memento_datetime |-> FALSE, status_code |-> 0,
     next |-> NoUrl, runtime_error |-> FALSE]

\* redirect_target_window, the default of get_memento's parameter.
redirect_target_window == 12 * 60 * 60

abs(x) == IF x < 0 THEN -x ELSE x

\* timedelta.seconds of a non-negative timedelta given in seconds: the
\* seconds field, which does not include the days.
timedelta_seconds(delta) == delta % (24 * 60 * 60)

\* 'Memento-Datetime' in response.headers
is_memento(response) == response.memento_datetime

\* Faulty variant: only the 2xx statuses are ok.
response_ok_2xx(response) ==
    response.status_code >= 200 /\ response.status_code < 300

\* requests.Response.ok: raise_for_status() does not raise (status < 400).
response_ok(response) == response.status_code < 400

\* memento_url_data / original_url_for_memento raise ValueError on a URL
\* that is not a memento URL; they are called on the current and the
\* target URL when the previous response was a memento and there is a next.
redirect_raises_ValueError(previous_was_memento, response) ==
    /\ previous_was_memento
    /\ response.next # NoUrl
    /\ (response.url = ExternalUrl \/ response.next = ExternalUrl)

\* Faulty variant: every response without Memento-Datetime is accepted.
playable_always(previous_was_memento, response, original_date) == TRUE

\* Faulty variant: a redirect of the first response may be followed too.
playable_without_previous(previous_was_memento, response, original_date) ==
    /\ response.next # NoUrl
    /\ casefold(response.url.orig) = casefold(response.next.orig)
    /\ timedelta_seconds(abs(response.next.date - original_date))
          <= redirect_target_window

\* Lines 615-620: may a non-memento response be followed?
playable(previous_was_memento, response, original_date) ==
    /\ previous_was_memento
    /\ response.next # NoUrl
    /\ casefold(response.url.orig) = casefold(response.next.orig)
    /\ timedelta_seconds(abs(response.next.date - original_date))
          <= redirect_target_window

NoOutcome == [kind |-> "NoError", message |-> "none", status_code |-> 0]

\* Lines 622-629: the error of a non-memento response that is not playable.
not_playable_error(response) ==
    IF response.runtime_error
    THEN [kind |-> "MementoPlaybackError", message |-> "runtime_error",
          status_code |-> 0]
    ELSE IF response_ok(response)
    THEN [kind |-> "MementoPlaybackError", message |-> "generic",
          status_code |-> 0]
    ELSE [kind |-> "HTTPError", message |-> "none",
          status_code |-> response.status_code]

\* Line 636: the error of a circular redirect.
circular_error ==
    [kind |-> "MementoPlaybackError", message |-> "circular", status_code |-> 0]

\* Faulty variant: no redirect is taken for circular.
is_circular_never(urls, response) == FALSE

\* Faulty variant: the URL of the current response is not yet in the set.
is_circular_before_add(urls, response) == response.next \in urls

\* Lines 633-635: urls.add(response.url); response.next.url in urls
is_circular(urls, response) == response.next \in (urls \cup {response.url})

(* ------------------- WaybackSession.send: one request ------------------ *)

\* WaybackSession.retryable_statuses
retryable_statuses == {413, 421, 429, 500, 502, 503, 504, 599}

\* Values of WaybackSession.backoff tried (the default, and the value
\* import_ia_urls uses).
Backoffs == {2, 4}

\* What one call of requests.Session.send does: it returns a response
\* (with or without Memento-Datetime), or raises
\*   ReadTimeoutError          an error of retryable_errors
\*   ConnectionError_retry     ConnectionError with 'NewConnectionError' or
\*                             'Max retries' in its text
\*   ConnectionError           any other ConnectionError
\*   InvalidSchema             an error that is not handleable
Outcomes ==
    [kind : {"response"}, status_code : {200, 503}, memento_datetime : BOOLEAN,
     error : {"none"}]
    \cup
    [kind : {"error"}, status_code : {0}, memento_datetime : {FALSE},
     error : {"ReadTimeoutError", "ConnectionError_retry", "ConnectionError",
              "InvalidSchema"}]

retryable_errors == {"ReadTimeoutError"}
handleable_errors == {"ConnectionError", "ConnectionError_retry"}
                        \cup retryable_errors

\* Faulty variant: Memento-Datetime is not looked at.
should_retry_by_status(resp) == resp.status_code \in retryable_statuses

\* WaybackSession.should_retry
should_retry(resp) ==
    IF resp.memento_datetime THEN FALSE
    ELSE resp.status_code \in retryable_statuses

\* WaybackSession.should_retry_error
should_retry_error(err) ==
    \/ err \in retryable_errors
    \/ err = "ConnectionError_retry"

\* Faulty variant: one more attempt is allowed.
retries_used_up_late(tried, maximum_retries) == tried > maximum_retries

\* `retries >= maximum`, in both branches of send.
retries_used_up(tried, maximum_retries) == tried >= maximum_retries

RECURSIVE power_of_two(_)
\* 2 ** n
power_of_two(n) == IF n <= 0 THEN 1 ELSE 2 * power_of_two(n - 1)

\* Lines 239-241: the seconds send sleeps after a failed attempt, when
\* `retries` retries have been made before it (0: it does not sleep).
backoff_seconds(backoff_base, tried) == backoff_base * power_of_two(tried - 1)

NoResult ==
    [kind |-> "none", status_code |-> 0, memento_datetime |-> FALSE,
     error |-> "none", retries |-> 0, time |-> 0]

(* ------------------ WaybackClient.search: one CDX search --------------- *)

\* The lines of a CDX response:
\*   record     a line of seven fields with a parseable timestamp
\*   malformed  such a line whose URL is_malformed_url (a data: or e-mail URL)
\*   garbage    a line that CdxRecord or strptime cannot take
\*   blank      the empty line before the resume key
\*   K1, K2     a resume key
ResumeKeys == {"K1", "K2"}
RecordLines == {"record", "malformed", "garbage"}

RECURSIVE SeqsUpTo(_, _)
\* The sequences over a set with at most n elements.
SeqsUpTo(S, n) ==
    IF n = 0 THEN {<<>>}
    ELSE LET shorter == SeqsUpTo(S, n - 1)
         IN  shorter \cup {Append(q, x) : q \in shorter, x \in S}

\* The record lines of a page.  search reads nothing after a line it cannot
\* parse, so such a line is the last one of the pages that have one.
PageRecords ==
    {recs \in SeqsUpTo(RecordLines, MaxPageRecords) :
        \A i \in 1..(Len(recs) - 1) : recs[i] # "garbage"}

\* What may follow the records of a page: nothing (the last page), a blank
\* line and a resume key, these two and one more line, or a blank line
\* that ends the response.
PageEnds ==
    {<<>>, <<"blank">>, <<"blank", "K2", "record">>}
    \cup {<<"blank", k>> : k \in ResumeKeys}

\* The responses of the CDX server to one request.
CdxResponses ==
    {recs \o tail : recs \in PageRecords, tail \in PageEnds}

\* The arguments of a call of search that matter on the wire or for the
\* parsing: from_date and a 'from' among **kwargs, page, pageSize,
\* resumeKey, skip_malformed_results.
SearchArgs ==
    {[from_date |-> from, kwargs_from |-> "None", page |-> paging[1],
      pageSize |-> paging[2], resumeKey |-> "None",
      skip_malformed_results |-> skip] :
        from \in {"None", "2020"},
        paging \in {<<"None", "5">>, <<"2", "None">>},
        skip \in BOOLEAN}

\* Lines 386-393: the query of a call.  `'pageSize': page`; kwargs update
\* the query.
search_query(args) ==
    [from |-> IF args.kwargs_from # "None" THEN args.kwargs_from
              ELSE args.from_date,
     page |-> args.page,
     pageSize |-> args.page,
     resumeKey |-> args.resumeKey]

\* Faulty variant: the resumed call starts from the arguments' defaults.
next_args_defaults(query, key) ==
    [from_date |-> "None", kwargs_from |-> "None", page |-> "None",
     pageSize |-> "None", resumeKey |-> key, skip_malformed_results |-> TRUE]

\* Lines 424-426: search(**next_args) with next_args = query.copy() and the
\* resume key: 'from' is no parameter of search and arrives in **kwargs;
\* skip_malformed_results is not in the query and takes its default.
next_args(query, key) ==
    [from_date |-> "None", kwargs_from |-> query.from, page |-> query.page,
     pageSize |-> query.pageSize, resumeKey |-> key,
     skip_malformed_results |-> TRUE]

\* Line 427: `break` after the resumed search: the lines of the response
\* that are still read.
lines_after_resume(rest) == <<>>

\* Faulty variant: the count of the resumed search is dropped.
count_after_resume_own(count, resumed_count) == count

\* Line 426: count += yield from self.search(**next_args)
count_after_resume(count, resumed_count) == count + resumed_count

(* ------------------- strings: URL keys and record URLs ----------------- *)

\* A string is a sequence of symbols; a symbol stands for the characters it
\* names.  "a" and "A" are a letter in its two cases, "index" the five
\* letters of that word.

\* The part of a string before the first occurrence of a symbol:
\* str.split(sep, 1)[0].
split_first(str, sep) ==
    LET at == {i \in 1..Len(str) : str[i] = sep}
    IN  IF at = {} THEN str
        ELSE SubSeq(str, 1, (CHOOSE i \in at : \A j \in at : i <= j) - 1)

\* str.lower()
lower(str) == [i \in 1..Len(str) |-> IF str[i] = "A" THEN "a" ELSE str[i]]

\* The symbols of the class \w.
WordSymbols == {"a", "A", "index", "8", "0", "4", "3", "x", "p"}

\* Does INDEX_PAGE_EXPRESSION, index(\.\w+)?$, match at position i?
index_page_at(str, i) ==
    /\ str[i] = "index"
    /\ \/ i = Len(str)
       \/ /\ Len(str) >= i + 2
          /\ str[i + 1] = "."
          /\ \A j \in (i + 2)..Len(str) : str[j] \in WordSymbols

\* INDEX_PAGE_EXPRESSION.sub('', str): the leftmost match reaches the end
\* of the string and is removed.
index_page_sub(str) ==
    LET at == {i \in 1..Len(str) : index_page_at(str, i)}
    IN  IF at = {} THEN str
        ELSE SubSeq(str, 1, (CHOOSE i \in at : \A j \in at : i <= j) - 1)

\* if rough_key.endswith('/'): rough_key = rough_key[:-1]
strip_slash(str) ==
    IF str # <<>> /\ str[Len(str)] = "/" THEN SubSeq(str, 1, Len(str) - 1)
    ELSE str

\* cli.py 353-364: _rough_url_key
rough_url_key(url_key) ==
    strip_slash(index_page_sub(split_first(split_first(lower(url_key), "?"),
                                           "#")))

\* The keys _rough_url_key is checked with.
KeySymbols == {"a", "A", "index", "/", ".", "?", "#"}
UrlKeys == SeqsUpTo(KeySymbols, MaxKeyLen)

\* REDUNDANT_HTTP_PORT.sub(r'\1\2', url) and REDUNDANT_HTTPS_PORT.sub(...)
\* with the pattern ^(scheme[^:/]+)port(.*)$: after the scheme come one or
\* more symbols other than ':' and '/', then the symbols of the port; what
\* follows is kept whatever it is.
redundant_port_sub(url, scheme, port) ==
    LET stops == {i \in 2..Len(url) : url[i] \in {":", "/"}}
        stop  == IF stops = {} THEN 0
                 ELSE CHOOSE i \in stops : \A j \in stops : i <= j
    IN  IF /\ url # <<>>
           /\ url[1] = scheme
           /\ stop > 2
           /\ Len(url) >= stop + Len(port) - 1
           /\ SubSeq(url, stop, stop + Len(port) - 1) = port
        THEN SubSeq(url, 1, stop - 1)
                \o SubSeq(url, stop + Len(port), Len(url))
        ELSE url

\* internetarchive.py 436-438: clean_url
clean_url(url) ==
    redundant_port_sub(redundant_port_sub(url, "http://", <<":", "8", "0">>),
                       "https://", <<":", "4", "4", "3">>)

\* The URLs of CDX records clean_url is checked with: a scheme, a host,
\* possibly a port, and possibly a path or a query.
PortDigits == {"8", "0", "4", "3"}
Ports ==
    {<<>>} \cup {<<":">> \o digits :
                    digits \in SeqsUpTo(PortDigits, MaxPortDigits) \ {<<>>}}
RecordUrls ==
    {<<scheme>> \o host \o port \o rest :
        scheme \in {"http://", "https://"},
        host \in {<<"a">>, <<"a", ".", "x">>},
        port \in Ports,
        rest \in {<<>>, <<"/", "x">>,
                  <<"/", "?", "p", "=", ":", "8", "0">>}}

(* ------------------------------- state --------------------------------- *)

VARIABLES
    skip_unchanged,   \* argument of import_ia_urls
    worker_count,     \* argument of import_ia_urls
    cdx,              \* records yielded so far by _list_ia_versions_for_urls
    lines,            \* number of CDX records search has yielded so far
    list_hashes,      \* dict last_hashes of list_versions
    producer,         \* "running" | "exhausted" | "raised"
    mpc,              \* position of import_ia_urls
    error,            \* the exception import_ia_urls ended with
    batch,            \* the records (indices into cdx) of the current batch
    iter_pos,         \* ThreadSafeIterator over the batch: records handed out
    retry_queue,      \* queue.Queue of records (NoRecord = None)
    retry_exhausted,  \* queue_iterator(retry_queue) has returned
    summary,          \* the merged summary
    pct_keys,         \* summary holds the *_pct keys
    wpc,              \* position of each worker
    wrec,             \* the record a worker is fetching
    wsummary,         \* each worker's summary
    versions_queue,   \* queue.Queue of versions (NoVersion = None)
    upc,              \* position of the uploader (_add_and_monitor)
    last_hashes,      \* dict of _filter_unchanged_versions
    store_received,   \* the versions add_versions consumed, in order
    seen,             \* history: versions the uploader took from the queue
    enqueued,         \* history: versions put on the versions queue
    fetched,          \* the fetch this step performed (NoFetch: none)
    counted1,         \* history: counter of each record's first-pass fetch
    counted2,         \* history: counter of each record's retry-pass fetch
    fetches,          \* history: number of fetches of each record
    retry_puts,       \* history: number of puts of each record on a retry queue
    marker_puts       \* history: number of puts of None on the versions queue

\* One call of WaybackClient.get_memento.
VARIABLES
    gm_pc,            \* "idle" | "loop" | "returned" | "raised"
    original_date,    \* date of the requested memento URL
    response,         \* the response the loop is looking at
    previous_was_memento,
    urls,             \* URLs of the responses that were followed
    history,          \* URL and kind of the responses that were followed
    gm_sent,          \* history: number of requests sent to the session
    gm_error,         \* the exception get_memento ended with
    gm_rule2          \* history: the last non-memento redirect that was
                      \* followed (its URL and its target), or NoRule2

memento_vars == <<gm_pc, original_date, response, previous_was_memento, urls,
                  history, gm_sent, gm_error, gm_rule2>>

\* One call of WaybackSession.send.
VARIABLES
    send_pc,          \* "idle" | "attempt" | "returned" | "raised"
    maximum,          \* self.retries
    backoff,          \* self.backoff
    retries,          \* the local counter of send
    total_time,       \* the local total_time of send
    send_result,      \* the response returned or the error raised
    attempt_log,      \* history: what each call of super().send did
    sleeps            \* history: the calls of time.sleep, each with the
                      \* number of the attempt it followed

session_vars == <<send_pc, maximum, backoff, retries, total_time, send_result,
                  attempt_log, sleeps>>

\* One call of WaybackClient.search, with the calls it makes of itself.
VARIABLES
    search_pc,        \* "idle" | "reading" | "done" | "raised"
    frames,           \* the active calls of search, outermost first: the
                      \* arguments, the lines not yet read, the number of
                      \* lines read, and count
    yielded,          \* the records yielded, each with its page and line
    search_result,    \* the StopIteration value (-1: none yet)
    search_error,     \* the exception search ended with
    requests_sent,    \* history: the query of each request
    served            \* history: the record lines and the resume key of
                      \* each response

search_vars == <<search_pc, frames, yielded, search_result, search_error,
                 requests_sent, served>>

\* One run of the generator _list_ia_versions_for_urls, which calls
\* list_versions for one URL pattern after the other.
VARIABLES
    lv_pc,            \* "idle" | "listing" | "done" | "raised"
    lv_skip_repeats,  \* the argument skip_repeats
    url_patterns,     \* the number of URL patterns
    lv_pattern,       \* the pattern that is being listed
    lv_last_hashes,   \* dict last_hashes of the running list_versions
    lv_searched,      \* history: the records search has yielded
    lv_yielded,       \* history: the records list_versions has yielded
    lv_produced,      \* history: the records the generator has yielded
    lv_warnings       \* history: the patterns whose ValueError was logged

listing_vars == <<lv_pc, lv_skip_repeats, url_patterns, lv_pattern,
                  lv_last_hashes, lv_searched, lv_yielded, lv_produced,
                  lv_warnings>>

\* Calls of the string functions _rough_url_key and clean_url.
VARIABLES
    rk_calls,         \* how often _rough_url_key has been applied
    rk_key,           \* the key given to the first call, then the results
    rk_first,         \* the result of the first call
    cu_pc,            \* "idle" | "read" | "cleaned"
    cu_url,           \* the URL of a CDX record
    cu_clean          \* clean_url of it

string_vars == <<rk_calls, rk_key, rk_first, cu_pc, cu_url, cu_clean>>

client_vars == <<memento_vars, session_vars, search_vars, listing_vars,
                 string_vars>>

pipeline_vars ==
    <<skip_unchanged, worker_count, cdx, lines, list_hashes, producer, mpc,
      error, batch, iter_pos, retry_queue, retry_exhausted, summary, pct_keys,
      wpc, wrec, wsummary, versions_queue, upc, last_hashes, store_received,
      seen, enqueued, fetched, counted1, counted2, fetches, retry_puts,
      marker_puts>>

vars == <<pipeline_vars, client_vars>>

config_vars == <<skip_unchanged, worker_count>>
producer_vars == <<cdx, lines, list_hashes, producer>>
uploader_vars == <<upc, last_hashes, store_received, seen>>
history_vars == <<counted1, counted2, fetches, retry_puts>>

\* No non-memento redirect has been followed.
NoRule2 == [followed |-> FALSE, current |-> NoUrl, target |-> NoUrl]

\* get_memento has not been called.
MementoIdle ==
    /\ gm_pc = "idle"
    /\ original_date = 0
    /\ response = NoResponse
    /\ previous_was_memento = FALSE
    /\ urls = {}
    /\ history = <<>>
    /\ gm_sent = 0
    /\ gm_error = NoOutcome
    /\ gm_rule2 = NoRule2

\* send has not been called.
SessionIdle ==
    /\ send_pc = "idle"
    /\ maximum = 0
    /\ backoff = 0
    /\ retries = 0
    /\ total_time = 0
    /\ send_result = NoResult
    /\ attempt_log = <<>>
    /\ sleeps = <<>>

\* search has not been called.
SearchIdle ==
    /\ search_pc = "idle"
    /\ frames = <<>>
    /\ yielded = <<>>
    /\ search_result = -1
    /\ search_error = "NoError"
    /\ requests_sent = <<>>
    /\ served = <<>>

\* An empty dict last_hashes.
NoHashes == [p \in Pages |-> "absent"]

\* _list_ia_versions_for_urls has not been called.
ListingIdle ==
    /\ lv_pc = "idle"
    /\ lv_skip_repeats = FALSE
    /\ url_patterns = 0
    /\ lv_pattern = 0
    /\ lv_last_hashes = NoHashes
    /\ lv_searched = <<>>
    /\ lv_yielded = <<>>
    /\ lv_produced = <<>>
    /\ lv_warnings = <<>>

\* No string function has been called.
StringsIdle ==
    /\ rk_calls = -1
    /\ rk_key = <<>>
    /\ rk_first = <<>>
    /\ cu_pc = "idle"
    /\ cu_url = <<>>
    /\ cu_clean = <<>>

\* No fetch happened in the step.
NoFetch == [w |-> 0, rec |-> 0, scenario |-> "none", retry |-> FALSE]

Records == 1..MaxRecords
Workers == 1..EffectiveWorkerCount(worker_count)

InitWith(modes, counts) ==
    /\ skip_unchanged \in modes
    /\ worker_count \in counts
    /\ cdx = <<>>
    /\ lines = 0
    /\ list_hashes = [p \in Pages |-> "absent"]
    /\ producer = "running"
    /\ mpc = "collect"
    /\ error = "NoError"
    /\ batch = <<>>
    /\ iter_pos = 0
    /\ retry_queue = <<>>
    /\ retry_exhausted = FALSE
    /\ summary = worker_summary
    /\ pct_keys = FALSE
    /\ wpc = [w \in 1..WorkerSlots |-> "idle"]
    /\ wrec = [w \in 1..WorkerSlots |-> NoRecord]
    /\ wsummary = [w \in 1..WorkerSlots |-> worker_summary]
    /\ versions_queue = <<>>
    /\ upc = "consuming"
    /\ last_hashes = [p \in Pages |-> "absent"]
    /\ store_received = <<>>
    /\ seen = <<>>
    /\ enqueued = <<>>
    /\ fetched = NoFetch
    /\ counted1 = [r \in Records |-> "none"]
    /\ counted2 = [r \in Records |-> "none"]
    /\ fetches = [r \in Records |-> 0]
    /\ retry_puts = [r \in Records |-> 0]
    /\ marker_puts = 0
    /\ MementoIdle
    /\ SessionIdle
    /\ SearchIdle
    /\ ListingIdle
    /\ StringsIdle

(* ------------------- the producer (main task, serial) ------------------ *)

\* partition_all(2000, all_records) asks the record generator for one more
\* record of the batch, and the generator yields one.
ProducerYield(pages, digests, max_lines) ==
    /\ mpc = "collect"
    /\ producer = "running"
    /\ Len(batch) < BatchSize
    /\ lines < max_lines
    /\ lines' = lines + 1
    /\ \E p \in pages, d \in digests :
          IF list_versions_yields(skip_responses(skip_unchanged), list_hashes,
                                  p, d)
          THEN /\ list_hashes' = [list_hashes EXCEPT ![p] = d]
               /\ cdx' = Append(cdx, [url |-> p, digest |-> d])
               /\ batch' = Append(batch, Len(cdx) + 1)
          ELSE UNCHANGED <<list_hashes, cdx, batch>>
    /\ fetched' = NoFetch
    /\ UNCHANGED <<config_vars, client_vars, producer, mpc, error, iter_pos, retry_queue,
                   retry_exhausted, summary, pct_keys, wpc, wrec, wsummary,
                   versions_queue, uploader_vars, enqueued, history_vars,
                   marker_puts>>

\* The record generator is exhausted (every URL pattern has been listed).
ProducerStop ==
    /\ mpc = "collect"
    /\ producer = "running"
    /\ Len(batch) < BatchSize
    /\ producer' = "exhausted"
    /\ fetched' = NoFetch
    /\ UNCHANGED <<config_vars, client_vars, cdx, lines, list_hashes, mpc, error, batch,
                   iter_pos, retry_queue, retry_exhausted, summary, pct_keys,
                   wpc, wrec, wsummary, versions_queue, uploader_vars, enqueued,
                   history_vars, marker_puts>>

\* Faulty variant: the generator has no except clause.
ProducerCatches_nothing(exc) == FALSE

\* Is an exception of the record generator caught by
\* _list_ia_versions_for_urls (`except ValueError`)?
ProducerCatches(exc) == exc = "ValueError"

\* WaybackClient.search meets a CDX line it cannot parse and raises
\* UnexpectedResponseFormat; nothing between search and the caller of
\* import_ia_urls catches it, so import_ia_urls ends with it.
ProducerRaise ==
    /\ mpc = "collect"
    /\ producer = "running"
    /\ Len(batch) < BatchSize
    /\ ~ProducerCatches("UnexpectedResponseFormat")
    /\ producer' = "raised"
    /\ mpc' = "failed"
    /\ error' = "UnexpectedResponseFormat"
    /\ fetched' = NoFetch
    /\ UNCHANGED <<config_vars, client_vars, cdx, lines, list_hashes, batch, iter_pos,
                   retry_queue, retry_exhausted, summary, pct_keys, wpc, wrec,
                   wsummary, versions_queue, uploader_vars, enqueued,
                   history_vars, marker_puts>>

\* A batch is complete (2000 records, or fewer at the end of the stream):
\* wrap it in a ThreadSafeIterator, make a fresh retry queue, spawn workers.
SpawnWorkers ==
    /\ mpc = "collect"
    /\ batch # <<>>
    /\ Len(batch) = BatchSize \/ producer = "exhausted"
    /\ iter_pos' = 0
    /\ retry_queue' = <<>>
    /\ retry_exhausted' = FALSE
    /\ wpc' = [w \in 1..WorkerSlots |-> IF w \in Workers THEN "next" ELSE "idle"]
    /\ wrec' = [w \in 1..WorkerSlots |-> NoRecord]
    /\ wsummary' = [w \in 1..WorkerSlots |-> worker_summary]
    /\ mpc' = "first_pass"
    /\ fetched' = NoFetch
    /\ UNCHANGED <<config_vars, client_vars, producer_vars, error, batch, summary, pct_keys,
                   versions_queue, uploader_vars, enqueued, history_vars,
                   marker_puts>>

(* ----------------------------- the workers ----------------------------- *)

go_slow_and_try_hard == mpc = "retry_pass"

\* next(records) of load_wayback_records_worker, first pass: the
\* ThreadSafeIterator hands each record of the batch to exactly one caller.
WorkerNext(w) ==
    /\ mpc = "first_pass"
    /\ wpc[w] = "next"
    /\ IF iter_pos < Len(batch)
       THEN /\ iter_pos' = ThreadSafeNext(iter_pos)
            /\ wrec' = [wrec EXCEPT ![w] = batch[ThreadSafeNext(iter_pos)]]
            /\ wsummary' = [wsummary EXCEPT ![w] = Bump(@, "total")]
            /\ wpc' = [wpc EXCEPT ![w] = "fetch"]
       ELSE /\ wpc' = [wpc EXCEPT ![w] = "returned"]
            /\ UNCHANGED <<iter_pos, wrec, wsummary>>
    /\ fetched' = NoFetch
    /\ UNCHANGED <<config_vars, client_vars, producer_vars, mpc, error, batch, retry_queue,
                   retry_exhausted, summary, pct_keys, versions_queue,
                   uploader_vars, enqueued, history_vars, marker_puts>>

\* next(records), retry pass: the iterator is
\* ThreadSafeIterator(queue_iterator(retry_queue)), which ends at None.
WorkerNextRetry(w) ==
    /\ mpc = "retry_pass"
    /\ wpc[w] = "next"
    /\ IF retry_exhausted
       THEN /\ wpc' = [wpc EXCEPT ![w] = "returned"]
            /\ UNCHANGED <<retry_queue, retry_exhausted, wrec, wsummary>>
       ELSE /\ retry_queue # <<>>
            /\ retry_queue' = QueueRest(retry_queue)
            /\ IF queue_iterator_ends(QueueGet(retry_queue), NoRecord)
               THEN /\ retry_exhausted' = TRUE
                    /\ wpc' = [wpc EXCEPT ![w] = "returned"]
                    /\ UNCHANGED <<wrec, wsummary>>
               ELSE /\ wrec' = [wrec EXCEPT ![w] = QueueGet(retry_queue)]
                    /\ wsummary' = [wsummary EXCEPT ![w] = Bump(@, "total")]
                    /\ wpc' = [wpc EXCEPT ![w] = "fetch"]
                    /\ UNCHANGED retry_exhausted
    /\ fetched' = NoFetch
    /\ UNCHANGED <<config_vars, client_vars, producer_vars, mpc, error, batch, iter_pos,
                   summary, pct_keys, versions_queue, uploader_vars, enqueued,
                   history_vars, marker_puts>>

\* The body of the worker's loop for one record: fetch the memento
\* (timestamped_uri_to_version), then the try's else or one except clause.
WorkerFetch(w, scenarios, hashes) ==
    /\ mpc \in {"first_pass", "retry_pass"}
    /\ wpc[w] = "fetch"
    /\ \E scenario \in scenarios, h \in hashes[cdx[wrec[w]].url] :
        LET r == wrec[w]
            clause == ExceptClause(get_memento_raises(scenario))
            version == [page_url |-> cdx[r].url, version_hash |-> h, rec |-> r]
            put_failure == /\ clause = "unknown"
                           /\ ShouldPutOnFailureQueue(~go_slow_and_try_hard,
                                                      go_slow_and_try_hard)
        IN  /\ fetches' = [fetches EXCEPT ![r] = @ + 1]
            /\ fetched' = [w |-> w, rec |-> r, scenario |-> scenario,
                           retry |-> go_slow_and_try_hard]
            /\ IF go_slow_and_try_hard
               THEN /\ counted2' = [counted2 EXCEPT ![r] = clause]
                    /\ UNCHANGED counted1
               ELSE /\ counted1' = [counted1 EXCEPT ![r] = clause]
                    /\ UNCHANGED counted2
            /\ IF clause = "uncaught"
               THEN /\ wpc' = [wpc EXCEPT ![w] = "raised"]
                    /\ UNCHANGED <<wsummary, versions_queue, enqueued,
                                   retry_queue, retry_puts>>
               ELSE /\ wpc' = [wpc EXCEPT ![w] = "next"]
                    /\ wsummary' = [wsummary EXCEPT ![w] = Bump(@, clause)]
                    /\ IF clause = "success"
                       THEN /\ ~QueueFull(versions_queue, QueueMaxsize)
                            /\ versions_queue' = QueuePut(versions_queue, version)
                            /\ enqueued' = Append(enqueued, version)
                       ELSE UNCHANGED <<versions_queue, enqueued>>
                    /\ IF put_failure
                       THEN /\ ~QueueFull(retry_queue, QueueMaxsize)
                            /\ retry_queue' = QueuePut(retry_queue, r)
                            /\ retry_puts' = [retry_puts EXCEPT ![r] = @ + 1]
                       ELSE UNCHANGED <<retry_queue, retry_puts>>
    /\ UNCHANGED <<config_vars, client_vars, producer_vars, mpc, error, batch, iter_pos,
                   retry_exhausted, summary, pct_keys, wrec, uploader_vars,
                   marker_puts>>

(* --------------------- the main task, after a pass --------------------- *)

RECURSIVE SeqOfWorkers(_, _)
\* The results of asyncio.gather(*workers): the summaries of workers 1..n.
SeqOfWorkers(f, n) ==
    IF n = 0 THEN <<>> ELSE Append(SeqOfWorkers(f, n - 1), f[n])

WorkerResults == SeqOfWorkers(wsummary, EffectiveWorkerCount(worker_count))

\* Faulty variant: the main task goes on once one worker has returned.
GatherReady_first_returned ==
    \E w \in 1..EffectiveWorkerCount(worker_count) : wpc[w] = "returned"

\* asyncio.gather(*workers) returns once every worker has returned (and
\* raises as soon as one worker has raised).
GatherReady ==
    \/ \A w \in Workers : wpc[w] = "returned"
    \/ \E w \in Workers : wpc[w] = "raised"

\* Lines 228-239: merge the first-pass summaries; when the retry queue is
\* not empty, end it with None and spawn the workers again in escalated
\* mode with failure_queue=None; otherwise go on to the next batch.
GatherFirstPass ==
    /\ mpc = "first_pass"
    /\ GatherReady
    /\ IF \E w \in Workers : wpc[w] = "raised"
       THEN /\ mpc' = "failed"
            /\ error' = "WorkerError"
            /\ UNCHANGED <<summary, pct_keys, retry_queue, batch, wpc, wrec,
                           wsummary>>
       ELSE /\ summary' = merge_worker_summaries(<<summary>> \o WorkerResults)
            /\ pct_keys' = TRUE
            /\ error' = error
            /\ IF retry_queue # <<>>
               THEN /\ retry_queue' = QueuePut(retry_queue, NoRecord)
                    /\ wpc' = [w \in 1..WorkerSlots |->
                                 IF w \in Workers THEN "next" ELSE "idle"]
                    /\ wrec' = [w \in 1..WorkerSlots |-> NoRecord]
                    /\ wsummary' = [w \in 1..WorkerSlots |-> worker_summary]
                    /\ mpc' = "retry_pass"
                    /\ UNCHANGED batch
               ELSE /\ mpc' = "collect"
                    /\ batch' = <<>>
                    /\ UNCHANGED <<retry_queue, wpc, wrec, wsummary>>
    /\ fetched' = NoFetch
    /\ UNCHANGED <<config_vars, client_vars, producer_vars, iter_pos, retry_exhausted,
                   versions_queue, uploader_vars, enqueued, history_vars,
                   marker_puts>>

\* Lines 242-247: merge the retry-pass summaries into the summary.
GatherRetryPass ==
    /\ mpc = "retry_pass"
    /\ GatherReady
    /\ IF \E w \in Workers : wpc[w] = "raised"
       THEN /\ mpc' = "failed"
            /\ error' = "WorkerError"
            /\ UNCHANGED <<summary, batch>>
       ELSE /\ summary' = MergeRetrySummary(summary,
                              merge_worker_summaries(WorkerResults))
            /\ mpc' = "collect"
            /\ batch' = <<>>
            /\ error' = error
    /\ fetched' = NoFetch
    /\ UNCHANGED <<config_vars, client_vars, producer_vars, iter_pos, retry_queue,
                   retry_exhausted, pct_keys, wpc, wrec, wsummary,
                   versions_queue, uploader_vars, enqueued, history_vars,
                   marker_puts>>

\* Lines 249-256, after the last batch: format the summary (the format
\* string reads the *_pct keys, which only merge_worker_summaries sets: a
\* run without any batch ends with KeyError here), then put None on the
\* versions queue.
ReportAndPutMarker ==
    /\ mpc = "collect"
    /\ batch = <<>>
    /\ producer = "exhausted"
    /\ IF pct_keys
       THEN /\ ~QueueFull(versions_queue, QueueMaxsize)
            /\ versions_queue' = QueuePut(versions_queue, NoVersion)
            /\ marker_puts' = marker_puts + 1
            /\ mpc' = "await_uploader"
            /\ error' = error
       ELSE /\ mpc' = "failed"
            /\ error' = "KeyError"
            /\ UNCHANGED <<versions_queue, marker_puts>>
    /\ fetched' = NoFetch
    /\ UNCHANGED <<config_vars, client_vars, producer_vars, batch, iter_pos, retry_queue,
                   retry_exhausted, summary, pct_keys, wpc, wrec, wsummary,
                   uploader_vars, enqueued, history_vars>>

\* Line 258: await uploader.
AwaitUploader ==
    /\ mpc = "await_uploader"
    /\ upc = "done"
    /\ mpc' = "done"
    /\ fetched' = NoFetch
    /\ UNCHANGED <<config_vars, client_vars, producer_vars, error, batch, iter_pos,
                   retry_queue, retry_exhausted, summary, pct_keys, wpc, wrec,
                   wsummary, versions_queue, uploader_vars, enqueued,
                   history_vars, marker_puts>>

(* ----------------------------- the uploader ---------------------------- *)

\* Line 199: the versions stream is filtered only in this mode.
FilterActive(mode) == mode = "resolved-response"

\* add_versions pulls the next item of the stream: queue_iterator takes the
\* oldest item of the versions queue (blocking while it is empty) and ends
\* at None; _filter_unchanged_versions, when active, passes the version on
\* only if its hash differs from the page's last one.
UploaderTake ==
    /\ upc = "consuming"
    /\ versions_queue # <<>>
    /\ versions_queue' = QueueRest(versions_queue)
    /\ LET version == QueueGet(versions_queue)
       IN  IF queue_iterator_ends(version, NoVersion)
           THEN /\ upc' = "monitoring"
                /\ UNCHANGED <<last_hashes, store_received, seen>>
           ELSE /\ upc' = upc
                /\ seen' = Append(seen, version)
                /\ IF FilterActive(skip_unchanged)
                   THEN IF filter_yields(last_hashes, version)
                        THEN /\ last_hashes' =
                                  [last_hashes EXCEPT ![version.page_url] =
                                                          version.version_hash]
                             /\ store_received' = Append(store_received, version)
                        ELSE UNCHANGED <<last_hashes, store_received>>
                   ELSE /\ store_received' = Append(store_received, version)
                        /\ UNCHANGED last_hashes
    /\ fetched' = NoFetch
    /\ UNCHANGED <<config_vars, client_vars, producer_vars, mpc, error, batch, iter_pos,
                   retry_queue, retry_exhausted, summary, pct_keys, wpc, wrec,
                   wsummary, enqueued, history_vars, marker_puts>>

\* add_versions has returned the import ids; monitor_import_statuses polls
\* until the jobs are finished, and _add_and_monitor returns.
UploaderMonitor ==
    /\ upc = "monitoring"
    /\ upc' = "done"
    /\ fetched' = NoFetch
    /\ UNCHANGED <<config_vars, client_vars, producer_vars, mpc, error, batch, iter_pos,
                   retry_queue, retry_exhausted, summary, pct_keys, wpc, wrec,
                   wsummary, versions_queue, last_hashes, store_received, seen,
                   enqueued, history_vars, marker_puts>>

(* ----------------------------- get_memento ----------------------------- *)

\* session.request / session.send of get_memento: the Archive answers the
\* request of a URL with one of its responses, or the session gives up
\* with WaybackRetryError.  A chain of redirects has at most MaxHops
\* requests: the response to the last one does not lead to a new URL.
SessionAnswers(url, resp) ==
    /\ resp \in Responses(url)
    /\ gm_sent + 1 >= MaxHops =>
          resp.next \in {NoUrl} \cup urls \cup {response.url, url}

\* The same over a set of URLs that is small enough to need no such limit:
\* every response leads nowhere or to a URL of the set.
SessionAnswersOver(targets, url, resp) ==
    /\ resp \in Responses(url)
    /\ resp.next \in targets \cup {NoUrl}

\* The answers to a request in a run with a limit of hops (TRUE) or over a
\* small set of URLs (FALSE).
Answers(limited, targets, url, resp) ==
    IF limited THEN SessionAnswers(url, resp)
    ELSE SessionAnswersOver(targets, url, resp)

\* Lines 603-607: the first request of get_memento(url).
GetMementoRequest(limited, targets) ==
    /\ gm_pc = "idle"
    /\ \E url \in targets \cap MementoUrls :
          /\ url.date \in {0, 24 * 60 * 60}
          /\ original_date' = url.date
          /\ gm_sent' = 1
          /\ \/ \E resp \in Responses(url) :
                   /\ Answers(limited, targets, url, resp)
                   /\ response' = resp
                   /\ gm_pc' = "loop"
                   /\ UNCHANGED gm_error
             \/ /\ gm_pc' = "raised"
                /\ gm_error' = [kind |-> "WaybackRetryError",
                                message |-> "none", status_code |-> 0]
                /\ UNCHANGED response
    /\ UNCHANGED <<previous_was_memento, urls, history, gm_rule2>>
    /\ UNCHANGED <<pipeline_vars, session_vars, search_vars, listing_vars,
                   string_vars>>

\* Lines 609-641: one iteration of the loop of get_memento.
GetMementoIteration(limited, targets, max_requests) ==
    /\ gm_pc = "loop"
    /\ IF ~is_memento(response)
          /\ redirect_raises_ValueError(previous_was_memento, response)
       THEN /\ gm_pc' = "raised"
            /\ gm_error' = [kind |-> "ValueError", message |-> "none",
                            status_code |-> 0]
            /\ UNCHANGED <<response, previous_was_memento, urls, history,
                           gm_sent, gm_rule2>>
       ELSE IF ~is_memento(response)
                /\ ~playable(previous_was_memento, response, original_date)
       THEN /\ gm_pc' = "raised"
            /\ gm_error' = not_playable_error(response)
            /\ UNCHANGED <<response, previous_was_memento, urls, history,
                           gm_sent, gm_rule2>>
       ELSE IF response.next # NoUrl
       THEN /\ previous_was_memento' = is_memento(response)
            /\ urls' = urls \cup {response.url}
            /\ IF is_circular(urls, response)
               THEN /\ gm_pc' = "raised"
                    /\ gm_error' = circular_error
                    /\ UNCHANGED <<response, history, gm_sent, gm_rule2>>
               ELSE /\ gm_sent < max_requests
                    /\ gm_rule2' =
                          IF is_memento(response) THEN gm_rule2
                          ELSE [followed |-> TRUE, current |-> response.url,
                                target |-> response.next]
                    /\ history' = Append(history,
                                     [url |-> response.url,
                                      memento_datetime |-> is_memento(response)])
                    /\ gm_sent' = gm_sent + 1
                    /\ \/ \E resp \in Responses(response.next) :
                             /\ Answers(limited, targets, response.next, resp)
                             /\ response' = resp
                             /\ UNCHANGED <<gm_pc, gm_error>>
                       \/ /\ gm_pc' = "raised"
                          /\ gm_error' = [kind |-> "WaybackRetryError",
                                          message |-> "none", status_code |-> 0]
                          /\ UNCHANGED response
       ELSE /\ gm_pc' = "returned"
            /\ UNCHANGED <<response, previous_was_memento, urls, history,
                           gm_sent, gm_error, gm_rule2>>
    /\ UNCHANGED original_date
    /\ UNCHANGED <<pipeline_vars, session_vars, search_vars, listing_vars,
                   string_vars>>

(* -------------------------- WaybackSession.send ------------------------ *)

\* Lines 220-226: send is called on a session made with retries and
\* backoff.
SendStart ==
    /\ send_pc = "idle"
    /\ maximum' \in 0..MaxRetries
    /\ backoff' \in Backoffs
    /\ retries' = 0
    /\ total_time' = 0
    /\ send_pc' = "attempt"
    /\ UNCHANGED <<send_result, attempt_log, sleeps>>
    /\ UNCHANGED <<pipeline_vars, memento_vars, search_vars, listing_vars,
                   string_vars>>

\* Lines 227-243: one iteration of the loop of send: the attempt, and then
\* the return, the raise, or the sleep and the increment before the next
\* attempt.
SendAttempt ==
    /\ send_pc = "attempt"
    /\ \E o \in Outcomes :
        LET result == [kind |-> o.kind, status_code |-> o.status_code,
                       memento_datetime |-> o.memento_datetime,
                       error |-> o.error, retries |-> 0, time |-> 0]
            again ==
                /\ send_pc' = "attempt"
                /\ sleeps' = IF retries > 0
                             THEN Append(sleeps,
                                      [after |-> Len(attempt_log) + 1,
                                       seconds |-> backoff_seconds(backoff,
                                                                   retries)])
                             ELSE sleeps
                /\ retries' = retries + 1
                /\ UNCHANGED send_result
            ends(pc, res) ==
                /\ send_pc' = pc
                /\ send_result' = res
                /\ UNCHANGED <<retries, sleeps>>
        IN  /\ attempt_log' = Append(attempt_log, o)
            /\ IF o.kind = "response"
               THEN IF retries_used_up(retries, maximum) \/ ~should_retry(o)
                    THEN ends("returned", result)
                    ELSE again
               ELSE IF o.error \notin handleable_errors
               THEN ends("raised", result)
               ELSE IF retries_used_up(retries, maximum)
               THEN ends("raised",
                         [result EXCEPT !.kind = "WaybackRetryError",
                                        !.retries = retries,
                                        !.time = total_time])
               ELSE IF ~should_retry_error(o.error)
               THEN ends("raised", result)
               ELSE again
    /\ UNCHANGED <<maximum, backoff, total_time>>
    /\ UNCHANGED <<pipeline_vars, memento_vars, search_vars, listing_vars,
                   string_vars>>

(* -------------------------- WaybackClient.search ----------------------- *)

\* A call of search that has sent its request and got its response.
SearchFrame(args, resp) ==
    [args |-> args, lines |-> resp, read |-> 0, count |-> 0]

\* The responses to the request of the given depth: the deepest request the
\* model follows is answered with a last page.
ResponsesAt(depth) ==
    IF depth < MaxPages THEN CdxResponses
    ELSE {resp \in CdxResponses : \A i \in 1..Len(resp) : resp[i] # "blank"}

\* Lines 386-417: search is called and its first request is answered.
SearchCall ==
    /\ search_pc = "idle"
    /\ \E args \in SearchArgs, resp \in ResponsesAt(1) :
          /\ frames' = <<SearchFrame(args, resp)>>
          /\ requests_sent' = <<search_query(args)>>
          /\ served' = <<resp>>
    /\ search_pc' = "reading"
    /\ UNCHANGED <<yielded, search_result, search_error>>
    /\ UNCHANGED <<pipeline_vars, memento_vars, session_vars, listing_vars,
                   string_vars>>

\* Lines 419-456: one iteration of the loop over the lines, in the innermost
\* call: a record is yielded or skipped, a line that cannot be parsed
\* raises, a blank line makes the call take the next line as the resume key
\* and call search again.
SearchLine ==
    /\ search_pc = "reading"
    /\ LET depth == Len(frames)
           top   == frames[depth]
       IN
       /\ top.lines # <<>>
       /\ LET line == Head(top.lines)
              rest == Tail(top.lines)
              read == [top EXCEPT !.lines = rest, !.read = @ + 1]
          IN
          CASE line = "blank" /\ rest = <<>> ->
                 \* next(lines) raises StopIteration inside the generator
                 /\ search_pc' = "raised"
                 /\ search_error' = "RuntimeError"
                 /\ frames' = [frames EXCEPT ![depth] = read]
                 /\ UNCHANGED <<yielded, requests_sent, served>>
            [] line = "blank" /\ rest # <<>> ->
                 /\ \E resp \in ResponsesAt(depth + 1) :
                       LET call == next_args(search_query(top.args),
                                             Head(rest))
                       IN
                       /\ frames' =
                             Append([frames EXCEPT ![depth] =
                                        [top EXCEPT !.lines = Tail(rest),
                                                    !.read = @ + 2]],
                                    SearchFrame(call, resp))
                       /\ requests_sent' =
                             Append(requests_sent, search_query(call))
                       /\ served' = Append(served, resp)
                 /\ UNCHANGED <<search_pc, search_error, yielded>>
            [] line = "garbage" ->
                 /\ search_pc' = "raised"
                 /\ search_error' = "UnexpectedResponseFormat"
                 /\ frames' = [frames EXCEPT ![depth] = read]
                 /\ UNCHANGED <<yielded, requests_sent, served>>
            [] line = "malformed" /\ top.args.skip_malformed_results ->
                 /\ frames' = [frames EXCEPT ![depth] = read]
                 /\ UNCHANGED <<search_pc, search_error, yielded,
                                requests_sent, served>>
            [] OTHER ->
                 /\ frames' = [frames EXCEPT ![depth] =
                                  [read EXCEPT !.count = @ + 1]]
                 /\ yielded' = Append(yielded,
                                      [page |-> depth, line |-> top.read + 1,
                                       kind |-> line])
                 /\ UNCHANGED <<search_pc, search_error, requests_sent,
                                served>>
    /\ UNCHANGED search_result
    /\ UNCHANGED <<pipeline_vars, memento_vars, session_vars, listing_vars,
                   string_vars>>

\* Lines 426-427 and 458: the innermost call has no line left and returns
\* its count: to the caller of search, or to the call that resumed, which
\* adds it to its own count and leaves its loop.
SearchReturn ==
    /\ search_pc = "reading"
    /\ LET depth == Len(frames)
           top   == frames[depth]
       IN
       /\ top.lines = <<>>
       /\ IF depth = 1
          THEN /\ search_pc' = "done"
               /\ search_result' = top.count
               /\ frames' = <<>>
          ELSE /\ frames' =
                     [SubSeq(frames, 1, depth - 1) EXCEPT ![depth - 1] =
                         [@ EXCEPT
                            !.count = count_after_resume(@, top.count),
                            !.lines = lines_after_resume(@)]]
               /\ UNCHANGED <<search_pc, search_result>>
    /\ UNCHANGED <<yielded, search_error, requests_sent, served>>
    /\ UNCHANGED <<pipeline_vars, memento_vars, session_vars, listing_vars,
                   string_vars>>

(* ---------------- _list_ia_versions_for_urls, list_versions ------------ *)

\* cli.py 273-281: the generator is started and calls list_versions for the
\* first URL pattern.
ListStart ==
    /\ lv_pc = "idle"
    /\ lv_skip_repeats' \in BOOLEAN
    /\ url_patterns' \in 1..MaxPatterns
    /\ lv_pattern' = 1
    /\ lv_last_hashes' = NoHashes
    /\ lv_pc' = "listing"
    /\ UNCHANGED <<lv_searched, lv_yielded, lv_produced, lv_warnings>>
    /\ UNCHANGED <<pipeline_vars, memento_vars, session_vars, search_vars,
                   string_vars>>

\* internetarchive.py 523-534 and cli.py 286-291: search yields a record of
\* the pattern; list_versions yields it unless it repeats the last digest
\* of its URL, and the generator yields what passes version_filter.
ListRecord ==
    /\ lv_pc = "listing"
    /\ Len(lv_searched) < MaxRecords
    /\ \E u \in Pages, d \in Digests, page \in BOOLEAN :
          LET version == [n |-> Len(lv_searched) + 1, pattern |-> lv_pattern,
                          url |-> u, digest |-> d, is_page |-> page]
          IN
          /\ lv_searched' = Append(lv_searched, version)
          /\ IF list_versions_yields(lv_skip_repeats, lv_last_hashes, u, d)
             THEN /\ lv_last_hashes' = [lv_last_hashes EXCEPT ![u] = d]
                  /\ lv_yielded' = Append(lv_yielded, version)
                  /\ lv_produced' = IF page THEN Append(lv_produced, version)
                                    ELSE lv_produced
             ELSE UNCHANGED <<lv_last_hashes, lv_yielded, lv_produced>>
    /\ UNCHANGED <<lv_pc, lv_skip_repeats, url_patterns, lv_pattern,
                   lv_warnings>>
    /\ UNCHANGED <<pipeline_vars, memento_vars, session_vars, search_vars,
                   string_vars>>

\* internetarchive.py 536-538 and cli.py 280-293: the search of the pattern
\* is exhausted; list_versions raises ValueError if it has recorded no
\* digest; the generator logs a ValueError and goes on with the next
\* pattern, and is exhausted after the last one.
ListPatternEnd ==
    /\ lv_pc = "listing"
    /\ LET raises == lv_last_hashes = NoHashes
           caught == ProducerCatches("ValueError")
       IN
       /\ lv_warnings' = IF raises /\ caught
                         THEN Append(lv_warnings, lv_pattern)
                         ELSE lv_warnings
       /\ IF raises /\ ~caught
          THEN /\ lv_pc' = "raised"
               /\ UNCHANGED <<lv_pattern, lv_last_hashes>>
          ELSE IF lv_pattern < url_patterns
          THEN /\ lv_pattern' = lv_pattern + 1
               /\ lv_last_hashes' = NoHashes
               /\ UNCHANGED lv_pc
          ELSE /\ lv_pc' = "done"
               /\ UNCHANGED <<lv_pattern, lv_last_hashes>>
    /\ UNCHANGED <<lv_skip_repeats, url_patterns, lv_searched, lv_yielded,
                   lv_produced>>
    /\ UNCHANGED <<pipeline_vars, memento_vars, session_vars, search_vars,
                   string_vars>>

(* ------------------------- the string functions ------------------------ *)

\* A URL key is given to _rough_url_key.
RoughKeyInput ==
    /\ rk_calls = -1
    /\ rk_key' \in UrlKeys
    /\ rk_calls' = 0
    /\ UNCHANGED <<rk_first, cu_pc, cu_url, cu_clean>>
    /\ UNCHANGED <<pipeline_vars, memento_vars, session_vars, search_vars,
                   listing_vars>>

\* cli.py 353-364: _rough_url_key is applied, to the key and then to its
\* own result.
RoughKeyCall ==
    /\ rk_calls \in {0, 1}
    /\ rk_key' = rough_url_key(rk_key)
    /\ rk_first' = IF rk_calls = 0 THEN rough_url_key(rk_key) ELSE rk_first
    /\ rk_calls' = rk_calls + 1
    /\ UNCHANGED <<cu_pc, cu_url, cu_clean>>
    /\ UNCHANGED <<pipeline_vars, memento_vars, session_vars, search_vars,
                   listing_vars>>

\* internetarchive.py 429-430: search has parsed a record with some URL.
CleanUrlInput ==
    /\ cu_pc = "idle"
    /\ cu_url' \in RecordUrls
    /\ cu_pc' = "read"
    /\ UNCHANGED <<rk_calls, rk_key, rk_first, cu_clean>>
    /\ UNCHANGED <<pipeline_vars, memento_vars, session_vars, search_vars,
                   listing_vars>>

\* internetarchive.py 436-442: the redundant port is taken off the URL.
CleanUrlCall ==
    /\ cu_pc = "read"
    /\ cu_clean' = clean_url(cu_url)
    /\ cu_pc' = "cleaned"
    /\ UNCHANGED <<rk_calls, rk_key, rk_first, cu_url>>
    /\ UNCHANGED <<pipeline_vars, memento_vars, session_vars, search_vars,
                   listing_vars>>

(* --------------------------- the specification ------------------------- *)

\* The steps of the program, with the inputs of the environment drawn from
\* the given sets: the page URLs and the digests of the CDX records, what
\* the Archive does at a fetch, and for each page URL the hashes of the
\* bodies fetched for it; the CDX listing has at most max_lines records.
NextWith(pages, digests, scenarios, hashes, max_lines) ==
    \/ ProducerYield(pages, digests, max_lines)
    \/ ProducerStop
    \/ ProducerRaise
    \/ SpawnWorkers
    \/ \E w \in Workers : WorkerNext(w)
    \/ \E w \in Workers : WorkerNextRetry(w)
    \/ \E w \in Workers : WorkerFetch(w, scenarios, hashes)
    \/ GatherFirstPass
    \/ GatherRetryPass
    \/ ReportAndPutMarker
    \/ AwaitUploader
    \/ UploaderTake
    \/ UploaderMonitor

\* Every capture of every page has the same body.
OneBody == [p \in Pages |-> {"H1"}]

\* The body of page P1 changes between captures; a capture of page P2 has
\* the first body of P1.
ChangingBody == [p \in Pages |-> IF p = "P1" THEN Hashes ELSE {"H1"}]

\* Every outcome of a fetch, on the records of one page with one body, in
\* the default mode, with 1..MaxWorkers workers: the specification of the
\* claims about errors, counters and termination.
Init == InitWith({"resolved-response"}, 1..MaxWorkers)
Next == NextWith({"P1"}, {"D1"}, Scenarios, OneBody, MaxRecords)
Spec == Init /\ [][Next]_vars

\* Fetches that succeed or fail with a retryable error, on two pages, one
\* of them with two bodies, in the default mode, with one or two workers: the
\* specification of the claims about the order and the content of the
\* versions stream.
RetryScenarios == {"ok", "http_error"}
InitVersions == InitWith({"resolved-response"}, {1, 2})
NextVersions ==
    NextWith(Pages, {"D1"}, RetryScenarios, ChangingBody, MaxRecords)
SpecVersions == InitVersions /\ [][NextVersions]_vars

\* Every mode, on CDX records of two pages with two digests whose fetches
\* succeed or fail with a retryable error: the specification of the claims
\* about what each mode suppresses.
InitModes == InitWith(SkipModes, {1})
NextModes == NextWith(Pages, Digests, RetryScenarios, OneBody, MaxRecords)
SpecModes == InitModes /\ [][NextModes]_vars

\* Worker counts that are negative, zero and positive, on a CDX listing of
\* one record whose fetch succeeds or fails with a retryable error: the
\* specification of the claims about the number of workers.
WorkerCounts == {-1, 0, 1, 2}
InitWorkers == InitWith({"resolved-response"}, WorkerCounts)
NextWorkers == NextWith({"P1"}, {"D1"}, RetryScenarios, OneBody, 1)
SpecWorkers == InitWorkers /\ [][NextWorkers]_vars

\* One call of get_memento, over every chain of at most MaxHops responses.
InitMemento == InitWith({"resolved-response"}, {1})
NextMemento ==
    \/ GetMementoRequest(TRUE, MementoUrls \cup {ExternalUrl})
    \/ GetMementoIteration(TRUE, MementoUrls \cup {ExternalUrl}, MaxHops)
SpecMemento == InitMemento /\ [][NextMemento]_vars

\* One call of send, with every number of retries up to MaxRetries and
\* every sequence of outcomes of the attempts.
InitSession == InitWith({"resolved-response"}, {1})
NextSession == SendStart \/ SendAttempt
SpecSession == InitSession /\ [][NextSession]_vars

\* One call of get_memento over a few URLs, with no limit of hops: the
\* responses lead from any URL of the set to any other.  No walk over
\* distinct URLs has more requests than there are URLs; the model follows
\* a walk for two requests more.
WalkUrls ==
    {url \in MementoUrls : url.orig \in {"a", "A"} /\ url.date \in {0, 12 * 60 * 60}}
    \cup {ExternalUrl}
WalkRequests == Cardinality(WalkUrls) + 2
InitWalk == InitWith({"resolved-response"}, {1})
NextWalk ==
    \/ GetMementoRequest(FALSE, WalkUrls)
    \/ GetMementoIteration(FALSE, WalkUrls, WalkRequests)
\* get_memento is sequential code that goes on whenever the session has
\* answered: weak fairness of its steps.
SpecWalk == InitWalk /\ [][NextWalk]_vars /\ WF_vars(NextWalk)

\* One call of WaybackClient.search.
InitSearch == InitWith({"resolved-response"}, {1})
NextSearch == SearchCall \/ SearchLine \/ SearchReturn
SpecSearch == InitSearch /\ [][NextSearch]_vars

\* One run of the generator _list_ia_versions_for_urls.
InitListing == InitWith({"resolved-response"}, {1})
NextListing == ListStart \/ ListRecord \/ ListPatternEnd
SpecListing == InitListing /\ [][NextListing]_vars

\* _rough_url_key applied twice to a key.
InitRoughKey == InitWith({"resolved-response"}, {1})
NextRoughKey == RoughKeyInput \/ RoughKeyCall
SpecRoughKey == InitRoughKey /\ [][NextRoughKey]_vars

\* clean_url applied to the URL of a CDX record.
InitCleanUrl == InitWith({"resolved-response"}, {1})
NextCleanUrl == CleanUrlInput \/ CleanUrlCall
SpecCleanUrl == InitCleanUrl /\ [][NextCleanUrl]_vars

(* =============================== claims ================================ *)

PageItems(versions, p) == SelectSeq(versions, LAMBDA v : v.page_url = p)

BatchSet == {batch[i] : i \in 1..Len(batch)}

InPass == mpc \in {"first_pass", "retry_pass"}

AllReturned == \A w \in Workers : wpc[w] = "returned"

\* The counter a record's fetch was added to in the pass that is running.
CurCounted(r) == IF mpc = "retry_pass" THEN counted2[r] ELSE counted1[r]

\* The counter the fetch of this step was added to.
FetchCounted ==
    IF fetched.retry THEN counted2[fetched.rec] ELSE counted1[fetched.rec]

\* The sum of one counter over the summaries of the running workers.
SumWorkers(key) == merge_worker_summaries(WorkerResults)[key]

\* The records of the batch that the running pass added to one counter.
CountBatch(key) == Cardinality({r \in BatchSet : CurCounted(r) = key})

\* How often a record is on the retry queue.
OnRetryQueue(r) ==
    Cardinality({i \in 1..Len(retry_queue) : retry_queue[i] = r})

UnknownScenarios == {"http_error", "retries_exhausted", "bad_redirect"}

\* The batch (numbered from 0) of the r-th record of the CDX traversal.
BatchOf(r) == (r - 1) \div BatchSize

\* C1: with skip_unchanged = resolved-response, the stream handed to the
\* Store adapter never holds, among the versions of one page_url, two
\* consecutive versions with the same version_hash.
C1_NoConsecutiveRepeat ==
    FilterActive(skip_unchanged) =>
        \A p \in Pages :
            LET s == PageItems(store_received, p)
            IN  \A i \in 1..(Len(s) - 1) :
                    s[i].version_hash # s[i + 1].version_hash

\* A repeated version of a page was dropped, and the page's hash then
\* changed; one of the versions came from the retry pass.
C1_Witness ==
    /\ FilterActive(skip_unchanged)
    /\ Len(seen) = 3
    /\ Len(store_received) = 2
    /\ \A i \in 1..3 : seen[i].page_url = "P1"
    /\ seen[1].version_hash = seen[2].version_hash
    /\ \E r \in Records : counted2[r] = "success"

\* C2: the filter never drops a distinct hash: every (page_url,
\* version_hash) the uploader takes from the queue is in the stream handed
\* to the Store adapter, a version is dropped only when its hash is the
\* hash of the page's most recently delivered version, and by the end of
\* the stream the uploader has taken every version that was enqueued.
C2_NoDistinctHashDropped ==
    /\ \A i \in 1..Len(seen) :
          \E j \in 1..Len(store_received) :
              /\ store_received[j].page_url = seen[i].page_url
              /\ store_received[j].version_hash = seen[i].version_hash
    /\ \A p \in Pages :
          LET s == PageItems(seen, p)
              d == PageItems(store_received, p)
          IN  s # <<>> =>
                 /\ d # <<>>
                 /\ d[Len(d)].version_hash = s[Len(s)].version_hash
    /\ upc \in {"monitoring", "done"} => seen = enqueued

\* A version was dropped while versions of two pages with the same hash
\* were both delivered.
C2_Witness ==
    /\ Len(seen) > Len(store_received)
    /\ \E i, j \in 1..Len(store_received) :
          /\ store_received[i].page_url # store_received[j].page_url
          /\ store_received[i].version_hash = store_received[j].version_hash

\* C3: when a batch has been merged, and in the final summary, total is the
\* number of records the producer yielded and each record is counted in
\* exactly one of success, playback, missing, unknown.
C3_OneCounterPerRecord ==
    ((mpc = "collect" /\ batch = <<>>) \/ mpc \in {"await_uploader", "done"}) =>
        LET recs == 1..Len(cdx)
            n(P(_)) == Cardinality({r \in recs : P(r)})
        IN  /\ summary.total = Len(cdx)
            /\ summary.success
                  = n(LAMBDA r : counted1[r] = "success" \/ counted2[r] = "success")
            /\ summary.playback = n(LAMBDA r : counted1[r] = "playback")
            /\ summary.missing = n(LAMBDA r : counted1[r] = "missing")
            /\ summary.unknown
                  = n(LAMBDA r : counted1[r] = "unknown" /\ counted2[r] # "success")
            /\ summary.total = summary.success + summary.playback
                                 + summary.missing + summary.unknown

\* A run of several batches ended with one record that succeeded in the
\* retry pass and one that failed again there.
C3_Witness ==
    /\ mpc = "done"
    /\ Len(cdx) > BatchSize
    /\ \E r \in Records : counted2[r] = "success"
    /\ \E r \in Records : counted2[r] = "missing"

\* C4: import_ia_urls has ended only if the producer has finished, every
\* worker has left its loop, and the uploader has drained the versions
\* queue past the end-of-stream marker.
C4_TerminatesOnlyWhenDrained ==
    mpc \in {"done", "failed"} =>
        /\ producer = "exhausted"
        /\ \A w \in Workers : wpc[w] \in {"idle", "returned"}
        /\ upc = "done"
        /\ versions_queue = <<>>

\* C5: a record whose fetch fails with a non-404 HTTP error, with
\* WaybackRetryError or with any other non-playback error is counted in
\* unknown; it is put on the retry queue exactly once when that happens in
\* the first pass and never in the retry pass; no record is fetched more
\* than twice.
C5_RetriedOnce ==
    /\ fetched.scenario \in UnknownScenarios =>
          /\ FetchCounted = "unknown"
          /\ wsummary[fetched.w].unknown >= 1
          /\ retry_puts[fetched.rec] = 1
          /\ OnRetryQueue(fetched.rec) = (IF fetched.retry THEN 0 ELSE 1)
    /\ \A r \in Records :
          /\ fetches[r] <= 2
          /\ retry_puts[r] = (IF counted1[r] = "unknown" THEN 1 ELSE 0)
          /\ counted2[r] # "none" => counted1[r] = "unknown"
    /\ InPass => SumWorkers("unknown") = CountBatch("unknown")

\* A record failed in the first pass and failed again, with a malformed
\* redirect target, in the retry pass.
C5_Witness ==
    /\ fetched.retry
    /\ fetched.scenario = "bad_redirect"
    /\ fetches[fetched.rec] = 2
    /\ \E r \in BatchSet : r # fetched.rec /\ counted2[r] = "unknown"

\* C6: a record whose fetch fails with MementoPlaybackError is counted in
\* the worker's playback, one whose fetch fails with HTTP 404 in missing;
\* such a record is not put on the retry queue and not fetched again.
C6_PlaybackAndMissingFinal ==
    /\ fetched.scenario # "none" =>
          LET exc == get_memento_raises(fetched.scenario)
          IN  /\ exc = "MementoPlaybackError" =>
                    FetchCounted = "playback" /\ wsummary[fetched.w].playback >= 1
              /\ exc = "HTTPError404" =>
                    FetchCounted = "missing" /\ wsummary[fetched.w].missing >= 1
              /\ exc \in {"MementoPlaybackError", "HTTPError404"} =>
                    OnRetryQueue(fetched.rec) = 0
    /\ \A r \in Records :
          /\ counted1[r] \in {"playback", "missing"} =>
                retry_puts[r] = 0 /\ fetches[r] = 1 /\ counted2[r] = "none"
          /\ counted2[r] \in {"playback", "missing"} =>
                retry_puts[r] = 1 /\ fetches[r] = 2
    /\ InPass =>
          /\ SumWorkers("playback") = CountBatch("playback")
          /\ SumWorkers("missing") = CountBatch("missing")

\* A fetch of the retry pass ended with 404 in a run where a first-pass
\* fetch had ended with a playback error.
C6_Witness ==
    /\ fetched.retry
    /\ fetched.scenario = "http_404"
    /\ \E r \in Records : counted1[r] = "playback"

C8_BatchFullyProcessed ==
    /\ \A w \in Workers : wpc[w] # "raised"
    /\ error # "WorkerError"
    /\ fetched # NoFetch =>
          wpc[fetched.w] = "next" /\ FetchCounted \in SummaryKeys
    /\ (mpc = "first_pass" /\ AllReturned) =>
          /\ \A r \in BatchSet : counted1[r] # "none"
          /\ SumWorkers("total") = Len(batch)
    /\ (mpc = "retry_pass" /\ AllReturned) =>
          /\ \A r \in BatchSet : retry_puts[r] = 1 => counted2[r] # "none"
          /\ SumWorkers("total")
                = Cardinality({r \in BatchSet : retry_puts[r] = 1})

\* A single worker met an unknown error on one record and then a malformed
\* redirect target on the next record of the batch.
C8_Witness ==
    /\ worker_count = 1
    /\ ~fetched.retry
    /\ fetched.scenario = "bad_redirect"
    /\ fetched.rec - 1 \in BatchSet
    /\ counted1[fetched.rec - 1] = "unknown"

\* The uploader waits in queue.get() on an empty versions queue.
UploaderBlocked == upc = "consuming" /\ versions_queue = <<>>

\* C9: when the producer meets an unparseable CDX line, import_ia_urls ends
\* with UnexpectedResponseFormat and the uploader is not left blocked on
\* the versions queue.
C9_AbortStopsUploader ==
    (mpc = "failed" /\ error = "UnexpectedResponseFormat") => ~UploaderBlocked

\* C10 (as amended): the uploader takes the versions in the order in which
\* they were put on the queue, and the versions of a batch reach it before
\* the versions of every later batch.
C10_QueueOrder ==
    /\ seen \o SelectSeq(versions_queue, LAMBDA v : v # NoVersion) = enqueued
    /\ \A i, j \in 1..Len(seen) :
          i < j => BatchOf(seen[i].rec) <= BatchOf(seen[j].rec)

\* C10 (as claimed): the versions of one page_url reach the uploader in the
\* order in which the CDX traversal produced their records.
C10_CdxOrderPerPage ==
    \A i, j \in 1..Len(seen) :
        (i < j /\ seen[i].page_url = seen[j].page_url) =>
            seen[i].rec < seen[j].rec

\* Versions of the same page from two batches, the earlier one fetched in
\* the retry pass, have reached the uploader.
C10_Witness ==
    \E i, j \in 1..Len(seen) :
        /\ i < j
        /\ seen[i].page_url = seen[j].page_url
        /\ BatchOf(seen[i].rec) < BatchOf(seen[j].rec)
        /\ counted2[seen[i].rec] = "success"

\* C11: the versions queue has a fixed capacity, and in every state the
\* number of items waiting on it is at most that capacity (a put on a full
\* queue waits for the uploader).
C11_QueueBounded ==
    /\ QueueMaxsize > 0
    /\ Len(versions_queue) <= QueueMaxsize

\* Two yielded CDX records of one URL with the same digest and no yielded
\* record of that URL between them.
CdxRepeats ==
    \E i, j \in 1..Len(cdx) :
        /\ i < j
        /\ cdx[i].url = cdx[j].url
        /\ cdx[i].digest = cdx[j].digest
        /\ \A k \in (i + 1)..(j - 1) : cdx[k].url # cdx[i].url

\* Two consecutive versions of one page with the same hash were handed to
\* the Store adapter.
StoreRepeats ==
    \E p \in Pages :
        LET s == PageItems(store_received, p)
        IN  \E i \in 1..(Len(s) - 1) :
                s[i].version_hash = s[i + 1].version_hash

\* C12 (as amended): the two suppressions of the pipeline are alternatives.
\* With resolved-response, list_versions suppresses nothing (every CDX
\* record is yielded) and the versions stream is filtered by version_hash
\* per page_url; with response, list_versions suppresses the repeated
\* digests of a URL and the versions stream is not filtered.
C12_SuppressionPerMode ==
    /\ skip_unchanged = "resolved-response" =>
          /\ Len(cdx) = lines
          /\ ~StoreRepeats
    /\ skip_unchanged = "response" =>
          /\ ~CdxRepeats
          /\ store_received = seen

\* C12 (as claimed): with resolved-response as with response, list_versions
\* suppresses the repeated digests of a URL; with resolved-response the
\* versions stream is filtered in addition, with response it is not.
C12_BothSuppressions ==
    /\ skip_unchanged \in {"response", "resolved-response"} => ~CdxRepeats
    /\ skip_unchanged = "resolved-response" => ~StoreRepeats
    /\ skip_unchanged = "response" => store_received = seen

\* In the mode resolved-response, a repeated digest of a URL was yielded
\* and fetched, and the filter dropped a version.
C12_Witness ==
    /\ skip_unchanged = "resolved-response"
    /\ CdxRepeats
    /\ Len(seen) > Len(store_received)

\* C13: with skip_unchanged = none nothing asks for a suppression: the CDX
\* query has no digest collapse, list_versions runs with skip_repeats off,
\* the versions stream is not filtered, and add_versions is called with
\* skip_unchanged_versions = false.
C13_NoSuppressionWhenNone ==
    skip_unchanged = "none" =>
        /\ list_versions_collapse(skip_responses(skip_unchanged)) # "digest"
        /\ ~skip_responses(skip_unchanged)
        /\ Len(cdx) = lines
        /\ ~FilterActive(skip_unchanged)
        /\ store_received = seen
        /\ ~skip_unchanged_versions(skip_unchanged)

\* The worker tasks of the pass that is running.
SpawnedWorkers == Cardinality({w \in 1..WorkerSlots : wpc[w] # "idle"})

\* C14 (as amended): in the first pass and in the retry pass of a batch
\* there are worker_count workers when worker_count is positive, and 10
\* (PARALLEL_REQUESTS) workers when it is zero or negative.
C14_WorkersPerPass ==
    InPass =>
        SpawnedWorkers = (IF worker_count > 0 THEN worker_count ELSE 10)

\* C14 (as claimed): there are max(1, worker_count) workers.
C14_AtLeastOneWorker ==
    InPass =>
        SpawnedWorkers = (IF worker_count > 1 THEN worker_count ELSE 1)

\* With a negative worker_count, the ten workers of a retry pass have
\* returned.
C14_Witness ==
    /\ worker_count < 0
    /\ mpc = "retry_pass"
    /\ SpawnedWorkers = 10
    /\ \A w \in 1..10 : wpc[w] = "returned"

\* C15: get_memento follows a non-memento redirect only if the original
\* URL of its target equals, case-insensitively, the original URL of the
\* response, and the capture time of the target is at most 43200 seconds
\* (redirect_target_window) from the capture time that was requested.
C15_RedirectWithinWindow ==
    gm_rule2.followed =>
        /\ \/ gm_rule2.current.orig = gm_rule2.target.orig
           \/ {gm_rule2.current.orig, gm_rule2.target.orig} = {"a", "A"}
        /\ gm_rule2.target.date - original_date <= 43200
        /\ original_date - gm_rule2.target.date <= 43200

\* The URLs get_memento has received a response for, in order.
ReceivedUrls ==
    IF response = NoResponse \/ gm_error.kind = "WaybackRetryError"
    THEN [i \in 1..Len(history) |-> history[i].url]
    ELSE [i \in 1..(Len(history) + 1) |->
             IF i <= Len(history) THEN history[i].url ELSE response.url]

\* C16: a first response that is a redirect without Memento-Datetime is
\* never followed: get_memento raises MementoPlaybackError after the one
\* request it has sent.
C16_FirstRedirectNotFollowed ==
    /\ history # <<>> => history[1].memento_datetime
    /\ (/\ gm_pc \in {"returned", "raised"}
        /\ gm_sent = 1
        /\ response # NoResponse
        /\ ~response.memento_datetime
        /\ response.status_code = 302) =>
          /\ gm_pc = "raised"
          /\ gm_error.kind = "MementoPlaybackError"
          /\ history = <<>>

\* The first response was a redirect without Memento-Datetime to a capture
\* of the same URL twelve hours later, and get_memento has raised.
C16_Witness ==
    /\ gm_pc = "raised"
    /\ gm_sent = 1
    /\ ~response.memento_datetime
    /\ ~response.runtime_error
    /\ response.status_code = 302
    /\ response.next = [orig |-> response.url.orig,
                        date |-> original_date + 43200]

RaisedOnResponse ==
    /\ gm_pc = "raised"
    /\ gm_error.kind \in {"MementoPlaybackError", "HTTPError"}
    /\ gm_error.message # "circular"

\* C18 (as amended): get_memento never returns a response without
\* Memento-Datetime; the error of such a response that may not be followed
\* is MementoPlaybackError with the message of the runtime-error header
\* when the header is present, else a generic MementoPlaybackError when the
\* status is below 400 (2xx and 3xx), else an HTTP error with that status.
C18_NonMementoError ==
    /\ gm_pc = "returned" => response.memento_datetime
    /\ RaisedOnResponse =>
          /\ ~response.memento_datetime
          /\ IF response.runtime_error
             THEN /\ gm_error.kind = "MementoPlaybackError"
                  /\ gm_error.message = "runtime_error"
             ELSE IF response.status_code < 400
             THEN /\ gm_error.kind = "MementoPlaybackError"
                  /\ gm_error.message = "generic"
             ELSE /\ gm_error.kind = "HTTPError"
                  /\ gm_error.status_code = response.status_code

\* C18 (as claimed): without the header the error is a generic
\* MementoPlaybackError for a 2xx status and an HTTP error for every other
\* status.
C18_Only2xxIsPlaybackError ==
    /\ gm_pc = "returned" => response.memento_datetime
    /\ RaisedOnResponse =>
          /\ ~response.memento_datetime
          /\ IF response.runtime_error
             THEN /\ gm_error.kind = "MementoPlaybackError"
                  /\ gm_error.message = "runtime_error"
             ELSE IF response.status_code >= 200 /\ response.status_code < 300
             THEN /\ gm_error.kind = "MementoPlaybackError"
                  /\ gm_error.message = "generic"
             ELSE /\ gm_error.kind = "HTTPError"
                  /\ gm_error.status_code = response.status_code

\* After a memento redirect, a response without Memento-Datetime and with
\* status 503 has ended get_memento with that HTTP error.
C18_Witness ==
    /\ RaisedOnResponse
    /\ Len(history) = 1
    /\ ~response.runtime_error
    /\ response.status_code = 503
    /\ gm_error.kind = "HTTPError"
    /\ gm_error.status_code = 503

\* An attempt returned a retryable status without Memento-Datetime.
RetryableStatus(o) ==
    /\ o.kind = "response"
    /\ ~o.memento_datetime
    /\ o.status_code \in {413, 421, 429, 500, 502, 503, 504, 599}

AllRetryableStatus ==
    \A i \in 1..Len(attempt_log) : RetryableStatus(attempt_log[i])

\* C19: one call of send makes at most retries+1 attempts, whatever the
\* attempts do; when every attempt returns a retryable status without
\* Memento-Datetime it makes exactly retries+1 attempts and returns the
\* last response.
C19_AttemptsBounded ==
    /\ Len(attempt_log) <= maximum + 1
    /\ (send_pc = "attempt" /\ AllRetryableStatus) =>
          Len(attempt_log) <= maximum
    /\ (send_pc \in {"returned", "raised"} /\ AllRetryableStatus) =>
          /\ Len(attempt_log) = maximum + 1
          /\ send_pc = "returned"
          /\ send_result.kind = "response"
          /\ send_result.status_code
                = attempt_log[Len(attempt_log)].status_code

\* With retries = 2 or more, send has returned the last of retries+1
\* responses that all had a retryable status.
C19_Witness ==
    /\ send_pc = "returned"
    /\ maximum >= 2
    /\ AllRetryableStatus
    /\ Len(attempt_log) = maximum + 1

\* C20: given retryable status responses, send sleeps backoff * 2^(k-1)
\* seconds between attempt k and attempt k+1, for every k >= 1, and does
\* not sleep before attempt 1.
C20_BackoffSchedule ==
    AllRetryableStatus =>
        /\ \A i \in 1..Len(sleeps) : sleeps[i].after >= 1
        /\ \A k \in 1..retries :
              \E i \in 1..Len(sleeps) :
                  /\ sleeps[i].after = k
                  /\ sleeps[i].seconds = backoff * power_of_two(k - 1)

\* C21: a response with Memento-Datetime is never retried, whatever its
\* status: it is the last attempt of the call, send returns it, and no
\* sleep follows the attempt that received it.
C21_MementoNeverRetried ==
    \A i \in 1..Len(attempt_log) :
        (attempt_log[i].kind = "response" /\ attempt_log[i].memento_datetime) =>
            /\ i = Len(attempt_log)
            /\ send_pc = "returned"
            /\ send_result.kind = "response"
            /\ send_result.memento_datetime
            /\ send_result.status_code = attempt_log[i].status_code
            /\ \A j \in 1..Len(sleeps) : sleeps[j].after # i

\* With retries left, the first response had Memento-Datetime and the
\* retryable status 503, and was returned.
C21_Witness ==
    /\ send_pc = "returned"
    /\ maximum >= 1
    /\ Len(attempt_log) = 1
    /\ attempt_log[1].kind = "response"
    /\ attempt_log[1].memento_datetime
    /\ attempt_log[1].status_code = 503
    /\ sleeps = <<>>

RECURSIVE SumSeconds(_)
\* The seconds of a sequence of sleeps, added up.
SumSeconds(seq) ==
    IF seq = <<>> THEN 0 ELSE Head(seq).seconds + SumSeconds(Tail(seq))

\* C22: the WaybackRetryError of send carries the count of the attempts (or
\* of the retries among them), a total time that is at least the sum of
\* the sleeps of the call, and the error of the last attempt.
C22_RetryErrorCarriesTotals ==
    send_result.kind = "WaybackRetryError" =>
        /\ send_pc = "raised"
        /\ send_result.retries \in {Len(attempt_log) - 1, Len(attempt_log)}
        /\ send_result.time >= SumSeconds(sleeps)
        /\ send_result.error = attempt_log[Len(attempt_log)].error

\* C23: a ConnectionError whose text has neither 'NewConnectionError' nor
\* 'Max retries' ends the call on the attempt that met it, and send raises
\* that error itself, not WaybackRetryError, whatever the attempt and the
\* number of retries.
C23_ConnectionErrorSurfaces ==
    \A i \in 1..Len(attempt_log) :
        attempt_log[i].error = "ConnectionError" =>
            /\ i = Len(attempt_log)
            /\ send_pc = "raised"
            /\ send_result.kind = "error"
            /\ send_result.error = "ConnectionError"

\* The record lines of a response: the lines before its blank line.
RECURSIVE RecordsPart(_)
RecordsPart(resp) ==
    IF resp = <<>> \/ Head(resp) = "blank" THEN <<>>
    ELSE <<Head(resp)>> \o RecordsPart(Tail(resp))

\* The resume key of a response ("None": it has none).
ResumeKeyOf(resp) ==
    LET n == Len(RecordsPart(resp))
    IN  IF Len(resp) >= n + 2 THEN resp[n + 2] ELSE "None"

\* The records of the pages from the given one on, in page order.
RECURSIVE RecordsFrom(_)
RecordsFrom(page) ==
    IF page > Len(served) THEN <<>>
    ELSE [i \in 1..Len(RecordsPart(served[page])) |->
             [page |-> page, line |-> i,
              kind |-> RecordsPart(served[page])[i]]]
         \o RecordsFrom(page + 1)

\* Every record line of every page served is a well-formed record.
AllWellFormed ==
    \A p \in 1..Len(served) :
       \A i \in 1..Len(RecordsPart(served[p])) :
          RecordsPart(served[p])[i] = "record"

\* C24: when the K records of a search come in P >= 1 pages chained by
\* resume keys and none of them is malformed, search yields exactly these K
\* records, in page order, and the value it returns is K.
C24_SearchYieldsAllPages ==
    (search_pc = "done" /\ AllWellFormed)
        => /\ yielded = RecordsFrom(1)
           /\ search_result = Len(RecordsFrom(1))

\* A search of two pages with records on both has returned.
C24_Witness ==
    /\ search_pc = "done"
    /\ AllWellFormed
    /\ Len(served) = 2
    /\ \A p \in 1..2 : RecordsPart(served[p]) # <<>>
    /\ search_result = Len(yielded)

\* C25: after a blank line, search takes the next line as the resume key and
\* sends the same query again with resumeKey set to it; the lines after the
\* resume key in the response are not parsed as records.
C25_ResumeSameQuery ==
    /\ \A i \in 2..Len(requests_sent) :
          requests_sent[i] =
             [requests_sent[1] EXCEPT !.resumeKey = ResumeKeyOf(served[i-1])]
    /\ \A i \in 1..Len(yielded) :
          yielded[i].line <= Len(RecordsPart(served[yielded[i].page]))

\* A search whose first response had a line after its resume key, and which
\* was called with a from date and a page, has returned.
C25_Witness ==
    /\ search_pc = "done"
    /\ Len(requests_sent) = 2
    /\ Len(served[1]) > Len(RecordsPart(served[1])) + 2
    /\ requests_sent[1].from = "2020"
    /\ requests_sent[1].pageSize = "2"
    /\ requests_sent[2].resumeKey = "K2"

\* The record of the search that precedes record i in the same call of
\* list_versions and has the same URL (0: there is none).
PreviousOfUrl(i) ==
    LET same == {j \in 1..(i - 1) :
                    /\ lv_searched[j].pattern = lv_searched[i].pattern
                    /\ lv_searched[j].url = lv_searched[i].url}
    IN  IF same = {} THEN 0 ELSE CHOOSE j \in same : \A k \in same : k <= j

\* Record i of the search does not repeat the digest of the record before
\* it of its URL.
NewDigest(i) ==
    \/ PreviousOfUrl(i) = 0
    \/ lv_searched[PreviousOfUrl(i)].digest # lv_searched[i].digest

\* The records a sequence of records holds.
Members(q) == {q[i] : i \in 1..Len(q)}

\* C26: with skip_repeats on, list_versions suppresses exactly the records
\* whose digest is the last one seen for the same URL, whatever records of
\* other URLs lie in between, so that no two consecutive yielded records of
\* a URL have the same digest; with skip_repeats off it yields every record.
C26_SkipRepeatsPerUrl ==
    /\ \A i \in 1..Len(lv_searched) :
          lv_searched[i] \in Members(lv_yielded)
             <=> (~lv_skip_repeats \/ NewDigest(i))
    /\ \A i \in 1..Len(lv_yielded) : lv_yielded[i] \in Members(lv_searched)
    /\ \A i, j \in 1..Len(lv_yielded) : i < j => lv_yielded[i].n < lv_yielded[j].n
    /\ lv_skip_repeats =>
          \A i, j \in 1..Len(lv_yielded) :
             (/\ i < j
              /\ lv_yielded[i].pattern = lv_yielded[j].pattern
              /\ lv_yielded[i].url = lv_yielded[j].url
              /\ \A k \in (i + 1)..(j - 1) :
                    lv_yielded[k].url # lv_yielded[i].url)
                => lv_yielded[i].digest # lv_yielded[j].digest

\* With skip_repeats on, a repeat was suppressed although a record of the
\* other URL with another digest lay in between.
C26_Witness ==
    /\ lv_skip_repeats
    /\ Len(lv_searched) = 3
    /\ lv_searched[1].url = "P1" /\ lv_searched[1].digest = "D1"
    /\ lv_searched[2].url = "P2" /\ lv_searched[2].digest = "D2"
    /\ lv_searched[3].url = "P1" /\ lv_searched[3].digest = "D1"
    /\ lv_searched[3].pattern = 1
    /\ Len(lv_yielded) = 2

\* C27: a URL pattern whose search yields no record makes list_versions
\* raise only when the search is exhausted, and the generator catches the
\* error and goes on: the run is not ended by it and the records of the
\* later patterns are produced.
C27_EmptyPatternSkipped ==
    /\ lv_pc # "raised"
    /\ \A i \in 1..Len(lv_warnings) :
          /\ \A j \in 1..Len(lv_searched) :
                lv_searched[j].pattern # lv_warnings[i]
          /\ lv_pc = "listing" => lv_warnings[i] < lv_pattern
    /\ \A p \in 1..url_patterns :
          (lv_pc = "done" \/ p < lv_pattern) =>
             ((\E i \in 1..Len(lv_warnings) : lv_warnings[i] = p)
                <=> \A j \in 1..Len(lv_searched) : lv_searched[j].pattern # p)
    /\ \A j \in 1..Len(lv_searched) :
          (lv_searched[j].is_page /\ (~lv_skip_repeats \/ NewDigest(j)))
             => lv_searched[j] \in Members(lv_produced)

\* The first pattern had no record and was logged; a record of the second
\* pattern was produced afterwards.
C27_Witness ==
    /\ lv_pc = "done"
    /\ lv_warnings = <<1>>
    /\ \E i \in 1..Len(lv_produced) : lv_produced[i].pattern = 2

\* C28: _rough_url_key is idempotent: applied to its own result it returns
\* that result, also for keys that end in repeated '/index' segments, in
\* 'index' followed by 'index', or in several slashes.
C28_RoughKeyIdempotent ==
    rk_calls = 2 => rk_key = rk_first

\* The port of a URL: the digits after the ':' that follows the host ("":
\* the URL names no port), and the URL without it.
PortAt(url) ==
    LET stops == {i \in 2..Len(url) : url[i] \in {":", "/"}}
    IN  IF stops = {} THEN 0
        ELSE LET stop == CHOOSE i \in stops : \A j \in stops : i <= j
             IN  IF url[stop] = ":" THEN stop ELSE 0
PortEnd(url) ==
    LET from == PortAt(url)
        ends == {i \in from..Len(url) :
                    \A j \in (from + 1)..i : url[j] \in PortDigits}
    IN  CHOOSE i \in ends : \A j \in ends : j <= i
PortOf(url) ==
    IF PortAt(url) = 0 THEN <<>>
    ELSE SubSeq(url, PortAt(url) + 1, PortEnd(url))
WithoutPort(url) ==
    IF PortAt(url) = 0 THEN url
    ELSE SubSeq(url, 1, PortAt(url) - 1)
            \o SubSeq(url, PortEnd(url) + 1, Len(url))

\* C29: the URL of a record loses ':80' after an http:// origin and ':443'
\* after an https:// origin, with path and query kept, and is unchanged
\* with any other port, such as 8080 or 4430.
C29_OnlyRedundantPortStripped ==
    cu_pc = "cleaned" =>
       cu_clean =
          IF \/ cu_url[1] = "http://" /\ PortOf(cu_url) = <<"8", "0">>
             \/ cu_url[1] = "https://" /\ PortOf(cu_url) = <<"4", "4", "3">>
          THEN WithoutPort(cu_url)
          ELSE cu_url

\* The end-of-stream marker is put at most once, when no worker is running
\* and no record is left; every version was enqueued before it; and the
\* uploader stops only after it has taken every enqueued version.
MarkerIsLast ==
    /\ marker_puts <= 1
    /\ \A i \in 1..Len(versions_queue) :
          versions_queue[i] = NoVersion => i = Len(versions_queue)
    /\ marker_puts = 1 =>
          /\ producer = "exhausted"
          /\ batch = <<>>
          /\ \A w \in Workers : wpc[w] \in {"idle", "returned"}
          /\ \/ versions_queue # <<>>
                /\ versions_queue[Len(versions_queue)] = NoVersion
             \/ upc \in {"monitoring", "done"}
    /\ upc \in {"monitoring", "done"} =>
          /\ marker_puts = 1
          /\ seen = enqueued

\* C30: the end-of-stream marker is put on the versions queue exactly once,
\* after the last batch: when import_ia_urls has ended it has been put,
\* every version of every batch and pass was enqueued before it, none after
\* it, and the uploader has received every enqueued version when it stops.
C30_MarkerExactlyOnce ==
    /\ MarkerIsLast
    /\ mpc \in {"done", "failed"} => marker_puts = 1

\* Both passes over a record are over: its first-pass fetch was counted,
\* and so was its retry-pass fetch if it was put on the retry queue.
Finished(r) ==
    /\ counted1[r] # "none"
    /\ retry_puts[r] > 0 => counted2[r] # "none"

\* A worker is in its loop.
Running(w) == wpc[w] \in {"next", "fetch"}

\* C31: one batch of at most 2000 records at a time: workers run only
\* during a pass over the current batch, when both passes over every
\* earlier batch are over, and the workers of the retry pass run only when
\* the first-pass fetch of every record of the batch has been counted and
\* every first-pass worker has returned.
C31_OneBatchAtATime ==
    /\ Len(batch) <= BatchSize
    /\ mpc \in {"collect", "await_uploader", "done"} =>
          \A w \in Workers : ~Running(w)
    /\ (InPass /\ \E w \in Workers : Running(w)) =>
          /\ \A r \in 1..Len(cdx) :
                (\A i \in 1..Len(batch) : batch[i] # r) => Finished(r)
          /\ \A w \in Workers :
                wpc[w] = "fetch" => \E i \in 1..Len(batch) : batch[i] = wrec[w]
    /\ mpc = "retry_pass" =>
          /\ iter_pos = Len(batch)
          /\ \A i \in 1..Len(batch) : counted1[batch[i]] # "none"
          /\ \A w \in Workers :
                wpc[w] = "fetch" => counted1[wrec[w]] = "unknown"
    /\ fetched # NoFetch =>
          \A r \in 1..Len(cdx) :
             BatchOf(r) < BatchOf(fetched.rec) => Finished(r)

\* A record of the second batch is fetched in the retry pass, after a
\* record of the first batch went through the retry pass.
C31_Witness ==
    /\ fetched # NoFetch
    /\ fetched.retry
    /\ BatchOf(fetched.rec) = 1
    /\ \E r \in 1..Len(cdx) : BatchOf(r) = 0 /\ counted2[r] # "none"

\* The number of documents of a record that were put on the versions queue.
Documents(r) ==
    Cardinality({i \in 1..Len(enqueued) : enqueued[i].rec = r})

\* C32: every record has at most one document put on the versions queue
\* over the whole run, and a record is put on the retry queue only if its
\* first-pass fetch produced no document: a record with a document from the
\* first pass is never put on the retry queue nor fetched again, and while
\* a record is on the retry queue it has no document.
C32_OneDocumentOrRetry ==
    \A r \in Records :
       /\ Documents(r) <= 1
       /\ Documents(r) = 1 <=>
             (counted1[r] = "success" \/ counted2[r] = "success")
       /\ counted1[r] = "success" =>
             /\ retry_puts[r] = 0
             /\ counted2[r] = "none"
             /\ fetches[r] = 1
       /\ retry_puts[r] > 0 => counted1[r] = "unknown"
       /\ OnRetryQueue(r) > 0 => Documents(r) = 0

\* One record got its document in the first pass, another one in the retry
\* pass after it had been on the retry queue.
C32_Witness ==
    /\ \E r \in Records : counted1[r] = "success" /\ Documents(r) = 1
    /\ \E r \in Records :
          /\ retry_puts[r] = 1
          /\ counted2[r] = "success"
          /\ Documents(r) = 1

\* C33: when the producer yields no record at all, import_ia_urls does not
\* fail: once it has ended it has reported the summary and put the
\* end-of-stream marker, and the uploader has finished.
C33_EmptyRunEndsNormally ==
    (producer = "exhausted" /\ Len(cdx) = 0) =>
       /\ mpc # "failed"
       /\ error = "NoError"
       /\ mpc = "done" => (marker_puts = 1 /\ upc = "done")

\* C34: a response that get_memento returns has a Memento-Datetime header
\* and no redirect; no two responses that follow each other in the chain,
\* the one at hand included, are both without Memento-Datetime, unless
\* get_memento raises on the second.
C34_ReturnsOnlyMementos ==
    /\ gm_pc = "returned" =>
          /\ is_memento(response)
          /\ response.next = NoUrl
    /\ \A i \in 1..(Len(history) - 1) :
          history[i].memento_datetime \/ history[i + 1].memento_datetime
    /\ (/\ gm_pc \in {"returned", "raised"}
        /\ history # <<>>
        /\ ~history[Len(history)].memento_datetime
        /\ ~is_memento(response)) => gm_pc = "raised"

\* get_memento has returned a memento that it reached over a redirect
\* without Memento-Datetime.
C34_Witness ==
    /\ gm_pc = "returned"
    /\ Len(history) = 2
    /\ history[1].memento_datetime
    /\ ~history[2].memento_datetime
    /\ is_memento(response)

\* C35: skip_malformed_results holds for every page of a search: when the
\* caller passes False, the pages fetched with a resume key are read with
\* False too, and every record line read so far, malformed or not, has
\* been yielded and counted.
C35_SkipSettingOnEveryPage ==
    (search_pc = "reading" /\ ~frames[1].args.skip_malformed_results) =>
       \A p \in 1..Len(frames) :
          /\ ~frames[p].args.skip_malformed_results
          /\ \A i \in 1..frames[p].read :
                (/\ i <= Len(RecordsPart(served[p]))
                 /\ served[p][i] \in {"record", "malformed"})
                   => [page |-> p, line |-> i, kind |-> served[p][i]]
                         \in Members(yielded)
          /\ p = Len(frames) =>
                frames[p].count =
                   Cardinality({i \in 1..frames[p].read :
                                   /\ i <= Len(RecordsPart(served[p]))
                                   /\ served[p][i] \in {"record", "malformed"}})

\* The URLs get_memento has requested: those of the responses it followed
\* and that of the response at hand.
RequestedUrls == {history[i].url : i \in 1..Len(history)} \cup {response.url}

\* Every request of get_memento went to another URL.
OneRequestPerUrl ==
    /\ gm_pc # "idle" => gm_sent <= Cardinality(WalkUrls)
    /\ \A i, j \in 1..Len(history) : i # j => history[i].url # history[j].url
    /\ gm_pc \in {"loop", "returned"} =>
          /\ gm_sent = Cardinality(RequestedUrls)
          /\ \A i \in 1..Len(history) : history[i].url # response.url

\* C36: over a finite set of memento URLs and any responses, get_memento
\* sends at most one request per URL and ends, with a response or with an
\* error.
C36_WalkTerminates ==
    /\ []OneRequestPerUrl
    /\ <>(gm_pc \in {"returned", "raised"})

\* get_memento has requested every URL of the set, and the last response
\* redirects to one of them.
C36_Witness ==
    /\ gm_pc = "raised"
    /\ gm_error = circular_error
    /\ gm_sent = Cardinality(WalkUrls)
    /\ Len(history) = Cardinality(WalkUrls) - 1

====
